---------------------------- MODULE Spec2Model ----------------------------
(***************************************************************************)
(* Model of the ETA heating technology integration                         *)
(* (custom_components/eta_heating_technology).                             *)
(*                                                                         *)
(*   - SpecClassify : utils.determine_sensor_type over decoded values      *)
(*   - SpecApi      : api.EtaApiClient transport calls (_api_wrapper,      *)
(*                    does_endpoint_exist, async_get_data,                 *)
(*                    async_parse_menu, async_update_state) over device    *)
(*                    responses                                            *)
(*   - Spec         : coordinator.EtaDataUpdateCoordinator refresh cycles  *)
(*   - SpecSanitize : api.sanitize_input over names                        *)
(*   - SpecMenu     : the naming pass of api.Fub / api.Object over menus   *)
(*   - SpecSensor   : api.Value.scaled_value read by sensor.EtaSensor      *)
(*   - SpecSwitch   : switch.EtaSwitch turn-on and turn-off commands       *)
(*   - SpecStringSensor : sensor.EtaStringSensor.native_value              *)
(*   - SpecFlow     : config_flow.EtaFlowHandler, the setup flow, and the  *)
(*                    first step of the options flow                       *)
(*   - SpecSetup    : __init__.async_setup_entry forwarding the entry to   *)
(*                    sensor.async_setup_entry                             *)
(*   - SpecOptions  : config_flow.EtaOptionsFlowHandler, every step of     *)
(*                    the options flow up to the saved entry               *)
(*   - SpecFlows    : the setup flow and the options flow side by side     *)
(*   - SpecGather   : config_flow._classify_entities, the fetches behind   *)
(*                    asyncio.Semaphore(3) and the classification loop     *)
(*   - SpecLifecycle: __init__.async_setup_entry, async_unload_entry and   *)
(*                    async_reload_entry as interleaved tasks of one entry *)
(*                                                                         *)
(* Strings of the source that hold non-ASCII characters are written in     *)
(* ASCII: "degC" for the degree-Celsius unit, "W/m2", "m3/h".              *)
(***************************************************************************)
EXTENDS Integers, Sequences, FiniteSets, TLC

VARIABLES
    \* ---- utils.determine_sensor_type (SpecClassify)
    value,              \* the Value handed to determine_sensor_type
    sensor_type,        \* what determine_sensor_type returned ("pending" before)
    \* ---- api.EtaApiClient (SpecApi)
    api_op,             \* the client method called ("idle" before the call)
    api_resp,           \* what the session/device answers to the request
    api_result,         \* what the caller of the method gets
    \* ---- coordinator.EtaDataUpdateCoordinator (Spec)
    chosen_entities,    \* config_entry.data[CHOSEN_ENTITIES]: the stored dicts
    cached_objects,     \* _cached_objects: <<>> for None, <<list>> once parsed
    coordinator_data,   \* coordinator.data as entities read it: <<>> or <<map>>
    pc,                 \* position of _async_update_data
    cycle,              \* refresh cycles started; the device's reading changes with it
    in_flight,          \* task index -> url of its request the device has not answered
    responses,          \* task index -> the device's answer to its request
    results,            \* the gather's result list, one slot per chosen object
    data,               \* the local dict the cycle builds
    idx,                \* position of the loop over zip(objects, results)
    outcome,            \* what _async_update_data returned or raised
    published,          \* the cycle coordinator.data comes from and the tasks that returned a value in it
    \* ---- api.sanitize_input (SpecSanitize)
    raw_name,           \* the name handed to sanitize_input, a sequence of characters
    name_pc,            \* "raw", "once" after sanitize_input, "twice" after a second pass
    sanitized,          \* sanitize_input(raw_name)
    resanitized,        \* sanitize_input(sanitized)
    \* ---- api.Menu / Fub / Object naming (SpecMenu)
    decoded_menu,       \* the decoded menu: unit names and the objects with their parents
    naming,             \* object index -> its namespace and full_name attributes
    fub_idx,            \* units constructed so far (their model_post_init has run)
    \* ---- sensor.EtaSensor (SpecSensor)
    sensor_data,        \* coordinator.data when the sensor's property is read
    sensor_key,         \* entity_description.key of the sensor
    sensor_pc,          \* "created", then "read" once native_value was evaluated
    sensor_value,       \* what native_value returned or raised
    \* ---- switch.EtaSwitch (SpecSwitch)
    switch_entity,      \* the switch: its entity_description.key and its url
    switch_command,     \* the service the host called last: "on", "off" (None before)
    switch_data,        \* coordinator.data as the switch reads it
    ha_state,           \* the state the host shows: is_on as last read, <<>> for None
    switch_pc,          \* "idle", "ready", "awaiting" the device's answer, "done", "raised"
    switch_request,     \* the POST of the command under way or last ended
    switch_ack,         \* what async_update_state returned or raised
    commands,           \* turn-on and turn-off commands started
    refresh_requests,   \* calls of coordinator.async_request_refresh
    \* ---- sensor.EtaStringSensor (SpecStringSensor)
    string_data,        \* coordinator.data when the string sensor's property is read
    string_pc,          \* "created", then "read" once native_value was evaluated
    string_value,       \* what native_value returned
    \* ---- config_flow.EtaFlowHandler / EtaOptionsFlowHandler (SpecFlow)
    flow_step,          \* the step whose form is open: "user", "select_fubs", ...; "finished"
    flow_result,        \* what the last step of the setup flow returned, or the exception that left it
    flow_errors,        \* self._errors["base"] (None: no key set)
    flow_data,          \* self.configuration_flow_data
    flow_entry,         \* the config entry's data: <<>> before async_create_entry
    flow_checked,       \* the host/port pairs _test_url has returned True for
    flow_last,          \* the last host/port submitted, what its check and its menu fetch gave
    configured,         \* unique ids ("host:port") of the entries that exist when the flow starts
    options_result,     \* what async_step_init of the options flow returned
    flow_loaded,        \* what coordinator.chosen_objects gave for the new entry
    flow_selection,     \* the step and the names of the selection submitted last (None before)
    flow_fetched,       \* the points _classify_entities fetched, each with its class
    \* ---- config_flow.EtaOptionsFlowHandler (SpecOptions)
    opt_step,           \* the step of the options flow: "init", "select_fubs", ...; "finished"
    opt_result,         \* what the last step returned, or the exception that left it
    opt_self,           \* the handler's fields: _errors["base"], _discovered_fubs, ...
    opt_entry,          \* config_entry.data
    opt_before,         \* config_entry.data when the flow was opened
    opt_selection,      \* the step and the names of the selection submitted last
    opt_fetched,        \* the points _classify_entities fetched, each with its class
    \* ---- config_flow._classify_entities, task by task (SpecGather)
    gather_objects,     \* the chosen points passed to _classify_entities
    gather_task,        \* each _fetch task: "waiting" for a permit, "fetching", "done"
    sem_value,          \* permits the semaphore has left
    gather_fetched,     \* what async_get_data gave each task (NoOutcome before)
    gather_results,     \* what each task returned: the name and the value, <<>> for None
    gather_pc,          \* "gather", "returned", "raised"
    gather_names,       \* the two lists _classify_entities returns
    \* ---- __init__.async_setup_entry / async_reload_entry and the coordinators (SpecLifecycle)
    life_entry,         \* config_entry.data[CHOSEN_ENTITIES]
    life_tasks,         \* the calls of async_setup_entry and async_reload_entry, each with its position
    life_coordinators,  \* every coordinator made so far: _cached_objects and data
    life_runtime,       \* config_entry.runtime_data.coordinator (its number)
    life_entities,      \* the entities the host has, each with its coordinator
    life_loaded,        \* the sensor platform is set up for the entry
    life_listeners,     \* update listeners registered on the entry
    life_cycle,         \* the refresh cycle started last: its coordinator, the points it fetches, the stored list
    life_read,          \* the entity state read last and what the read gave
    \* ---- __init__.async_setup_entry, sensor.async_setup_entry (SpecSetup)
    setup_entry,        \* config_entry.data[CHOSEN_ENTITIES] of the entry being set up
    setup_device,       \* what the device shows for each chosen point
    setup_platform,     \* platforms of PLATFORMS whose setup was started
    setup_pc,           \* "forward", "loop" of a platform's setup, "done", "raised"
    setup_objects,      \* chosen_objects of the platform's setup
    setup_idx,          \* position of the loop over chosen_objects
    setup_fetched,      \* what async_get_data gave, fetch by fetch
    eta_sensors,        \* the list the sensor platform's setup builds
    setup_entities,     \* the entities handed to async_add_entities
    setup_outcome       \* what the setup of the entry returned or raised

classifyVars == <<value, sensor_type>>
apiVars == <<api_op, api_resp, api_result>>
refreshVars ==
    <<chosen_entities, cached_objects, coordinator_data, pc, cycle, in_flight,
      responses, results, data, idx, outcome, published>>
nameVars == <<raw_name, name_pc, sanitized, resanitized>>
menuVars == <<decoded_menu, naming, fub_idx>>
sensorVars == <<sensor_data, sensor_key, sensor_pc, sensor_value>>
switchVars ==
    <<switch_entity, switch_command, switch_data, ha_state, switch_pc, switch_request, switch_ack, commands,
      refresh_requests>>
earlyVars ==
    <<classifyVars, apiVars, refreshVars, nameVars, menuVars, sensorVars,
      switchVars>>
stringVars == <<string_data, string_pc, string_value>>
flowVars ==
    <<flow_step, flow_result, flow_errors, flow_data, flow_entry, flow_checked,
      flow_last, configured, options_result, flow_loaded, flow_selection,
      flow_fetched>>
setupVars ==
    <<setup_entry, setup_device, setup_platform, setup_pc, setup_objects,
      setup_idx, setup_fetched, eta_sensors, setup_entities, setup_outcome>>
optVars ==
    <<opt_step, opt_result, opt_self, opt_entry, opt_before, opt_selection,
      opt_fetched>>
gatherVars ==
    <<gather_objects, gather_task, sem_value, gather_fetched, gather_results,
      gather_pc, gather_names>>
lifeVars ==
    <<life_entry, life_tasks, life_coordinators, life_runtime, life_entities,
      life_loaded, life_listeners, life_cycle, life_read>>
lastVars == <<optVars, gatherVars, lifeVars>>
besidesString == <<earlyVars, flowVars, setupVars, lastVars>>
besidesFlow == <<earlyVars, stringVars, setupVars, lastVars>>
besidesSetup == <<earlyVars, stringVars, flowVars, lastVars>>
besidesOptions == <<earlyVars, stringVars, flowVars, setupVars, gatherVars, lifeVars>>
besidesGather == <<earlyVars, stringVars, flowVars, setupVars, optVars, lifeVars>>
besidesLife == <<earlyVars, stringVars, flowVars, setupVars, optVars, gatherVars>>
lateVars == <<stringVars, flowVars, setupVars, lastVars>>
moreVars == <<nameVars, menuVars, sensorVars, switchVars, lateVars>>
vars == <<classifyVars, apiVars, refreshVars, moreVars>>

None == "None"

-----------------------------------------------------------------------------
(* const.py                                                                *)

ETA_SENSOR_UNITS ==
    [u \in {"degC", "W", "A", "Hz", "Pa", "V", "W/m2", "bar", "kW", "kWh",
            "kg", "mV", "s", "%rH", "m3/h"} |->
        CASE u = "degC" -> "TEMPERATURE"
          [] u \in {"W", "kW"} -> "POWER"
          [] u = "A" -> "CURRENT"
          [] u = "Hz" -> "FREQUENCY"
          [] u \in {"Pa", "bar"} -> "PRESSURE"
          [] u \in {"V", "mV"} -> "VOLTAGE"
          [] u = "W/m2" -> "IRRADIANCE"
          [] u = "kWh" -> "ENERGY"
          [] u = "kg" -> "WEIGHT"
          [] u = "s" -> "DURATION"
          [] u = "%rH" -> "HUMIDITY"
          [] u = "m3/h" -> "VOLUME_FLOW_RATE"]

ETA_BINARY_SENSOR_VALUES_DE ==
    [c \in {"1802", "1803"} |-> (c = "1803")]

ETA_STRING_SENSOR_VALUES_DE ==
    [c \in {"2004", "2005", "2006", "2007", "2008", "2009", "2012", "2014",
            "2016", "2017", "2020", "2021", "2023", "2024", "2031"} |->
        CASE c = "2004" -> "Heizversuch"
          [] c = "2005" -> "Zuenden"
          [] c \in {"2006", "2021"} -> "Heizen"
          [] c = "2007" -> "Glutabbrand"
          [] c = "2008" -> "Glutabbrand wegen Entaschung"
          [] c = "2009" -> "Glutabbrand da ausgeschaltet"
          [] c = "2012" -> "Bereit"
          [] c = "2014" -> "Entaschen"
          [] c \in {"2016", "2031"} -> "Stoerung"
          [] c = "2017" -> "Glutabbrand wegen Stoerung"
          [] c = "2020" -> "Lambdasonde kalibrieren"
          [] c = "2023" -> "Stoker leeren"
          [] c = "2024" -> "Fuellen"]

\* class EtaSensorType
EtaSensorType == {"sensor", "binary_sensor", "string_sensor"}

HTTP_OK == 200

-----------------------------------------------------------------------------
(* api.Value: the unit attribute is a Literal of the 15 units and "".      *)

\* The Literal with one more unit, "%", accepted.
ValueUnits_with_percent ==
    {"degC", "W", "A", "Hz", "Pa", "V", "W/m2", "bar", "kW", "kWh", "kg",
     "mV", "s", "%rH", "m3/h", "%", ""}

ValueUnits ==
    {"degC", "W", "A", "Hz", "Pa", "V", "W/m2", "bar", "kW", "kWh", "kg",
     "mV", "s", "%rH", "m3/h", ""}

\* Coded values a device sends: the binary codes, enumerated-state codes, a
\* state code of another range and plain readings.
SampleCodes ==
    {"1802", "1803", "2004", "2006", "2012", "2031", "4001", "0", "199"}

\* Display texts (strValue), the empty text among them.
SampleStrValues == {"", "Ein", "20"}

ClassifyInputs ==
    [value : SampleCodes, unit : ValueUnits, str_value : SampleStrValues]

-----------------------------------------------------------------------------
(* utils.determine_sensor_type                                             *)

\* The unit test moved behind the code tables.
determine_sensor_type_codes_first(v) ==
    IF v.value \in DOMAIN ETA_BINARY_SENSOR_VALUES_DE THEN "binary_sensor"
    ELSE IF v.value \in DOMAIN ETA_STRING_SENSOR_VALUES_DE THEN "string_sensor"
    ELSE IF v.unit \in DOMAIN ETA_SENSOR_UNITS THEN "sensor"
    ELSE IF v.unit = "" /\ v.str_value # "" THEN "string_sensor"
    ELSE None

\* The binary table is not consulted.
determine_sensor_type_no_binary_table(v) ==
    IF v.unit \in DOMAIN ETA_SENSOR_UNITS THEN "sensor"
    ELSE IF v.value \in DOMAIN ETA_STRING_SENSOR_VALUES_DE THEN "string_sensor"
    ELSE IF v.unit = "" /\ v.str_value # "" THEN "string_sensor"
    ELSE None

\* The fallback taken for every unitless value, its display text not looked at.
determine_sensor_type_fallback_any_text(v) ==
    IF v.unit \in DOMAIN ETA_SENSOR_UNITS THEN "sensor"
    ELSE IF v.value \in DOMAIN ETA_BINARY_SENSOR_VALUES_DE THEN "binary_sensor"
    ELSE IF v.value \in DOMAIN ETA_STRING_SENSOR_VALUES_DE THEN "string_sensor"
    ELSE IF v.unit = "" THEN "string_sensor"
    ELSE None

determine_sensor_type(v) ==
    IF v.unit \in DOMAIN ETA_SENSOR_UNITS THEN "sensor"
    ELSE IF v.value \in DOMAIN ETA_BINARY_SENSOR_VALUES_DE THEN "binary_sensor"
    ELSE IF v.value \in DOMAIN ETA_STRING_SENSOR_VALUES_DE THEN "string_sensor"
    ELSE IF v.unit = "" /\ v.str_value # "" THEN "string_sensor"
    ELSE None

ApiIdle ==
    /\ api_op = "idle"
    /\ api_resp = None
    /\ api_result = None

\* An empty dict.
EmptyMap == [k \in {} |-> None]

\* No call of _async_update_data has ended yet.
NoOutcome == [tag |-> "none", exc |-> None, val |-> <<>>]

\* The coordinator right after construction.
RefreshFresh ==
    /\ cached_objects = <<>>
    /\ coordinator_data = <<>>
    /\ pc = "idle"
    /\ cycle = 0
    /\ in_flight = EmptyMap
    /\ responses = EmptyMap
    /\ results = <<>>
    /\ data = EmptyMap
    /\ idx = 0
    /\ outcome = NoOutcome
    /\ published = <<>>

\* A coordinator with nothing chosen, never refreshed.
RefreshIdle ==
    /\ chosen_entities = <<>>
    /\ RefreshFresh

\* No value handed to the classifier.
NoValue == [value |-> "0", unit |-> "", str_value |-> ""]

ClassifyIdle ==
    /\ value = NoValue
    /\ sensor_type = "pending"

\* No name handed to sanitize_input.
NamesIdle ==
    /\ raw_name = <<>>
    /\ name_pc = "idle"
    /\ sanitized = <<>>
    /\ resanitized = <<>>

\* No menu decoded.
MenuIdle ==
    /\ decoded_menu = [fubs |-> <<>>, objects |-> <<>>]
    /\ naming = <<>>
    /\ fub_idx = 0

\* No numeric sensor set up.
SensorIdle ==
    /\ sensor_data = EmptyMap
    /\ sensor_key = None
    /\ sensor_pc = "idle"
    /\ sensor_value = NoOutcome

\* No command sent.
NoRequest == [url |-> None, value |-> None, headers |-> None]

\* No switch created.
NoEntity == [key |-> None, url |-> None]

\* No switch set up.
SwitchIdle ==
    /\ switch_entity = NoEntity
    /\ switch_command = None
    /\ switch_data = EmptyMap
    /\ ha_state = <<>>
    /\ switch_pc = "idle"
    /\ switch_request = NoRequest
    /\ switch_ack = NoOutcome
    /\ commands = 0
    /\ refresh_requests = 0

\* No string sensor set up.
StringIdle ==
    /\ string_data = EmptyMap
    /\ string_pc = "idle"
    /\ string_value = NoOutcome

\* No flow started.
FlowIdle ==
    /\ flow_step = "idle"
    /\ flow_result = [type |-> "none", step_id |-> None, errors |-> None,
                      reason |-> None]
    /\ flow_errors = None
    /\ flow_data = None
    /\ flow_entry = <<>>
    /\ flow_checked = {}
    /\ flow_last = None
    /\ configured = {}
    /\ options_result = [type |-> "none", step_id |-> None, errors |-> None,
                         reason |-> None]
    /\ flow_loaded = NoOutcome
    /\ flow_selection = [step |-> None, names |-> {}]
    /\ flow_fetched = <<>>

\* No entry being set up.
SetupIdle ==
    /\ setup_entry = <<>>
    /\ setup_device = <<>>
    /\ setup_platform = 0
    /\ setup_pc = "idle"
    /\ setup_objects = <<>>
    /\ setup_idx = 0
    /\ setup_fetched = <<>>
    /\ eta_sensors = <<>>
    /\ setup_entities = {}
    /\ setup_outcome = NoOutcome

\* No options flow opened.
OptionsIdle ==
    /\ opt_step = "idle"
    /\ opt_result = [type |-> "none", step_id |-> None, errors |-> None,
                     reason |-> None]
    /\ opt_self = None
    /\ opt_entry = None
    /\ opt_before = None
    /\ opt_selection = [step |-> None, names |-> {}]
    /\ opt_fetched = <<>>

\* No classification under way.
GatherIdle ==
    /\ gather_objects = <<>>
    /\ gather_task = <<>>
    /\ sem_value = 0
    /\ gather_fetched = <<>>
    /\ gather_results = <<>>
    /\ gather_pc = "idle"
    /\ gather_names = [sensor_names |-> <<>>, switch_names |-> <<>>]

\* No entry set up.
LifeIdle ==
    /\ life_entry = <<>>
    /\ life_tasks = <<>>
    /\ life_coordinators = <<>>
    /\ life_runtime = 0
    /\ life_entities = {}
    /\ life_loaded = FALSE
    /\ life_listeners = 0
    /\ life_cycle = [coordinator |-> 0, used |-> <<>>, entry |-> <<>>,
                     first |-> TRUE]
    /\ life_read = [coordinator |-> 0, outcome |-> NoOutcome]

LastIdle ==
    /\ OptionsIdle
    /\ GatherIdle
    /\ LifeIdle

LateIdle ==
    /\ StringIdle
    /\ FlowIdle
    /\ SetupIdle
    /\ LastIdle

EarlyIdle ==
    /\ ClassifyIdle
    /\ ApiIdle
    /\ RefreshIdle
    /\ NamesIdle
    /\ MenuIdle
    /\ SensorIdle
    /\ SwitchIdle

MoreIdle ==
    /\ NamesIdle
    /\ MenuIdle
    /\ SensorIdle
    /\ SwitchIdle
    /\ LateIdle

ClassifyInit ==
    /\ value \in ClassifyInputs
    /\ sensor_type = "pending"
    /\ ApiIdle
    /\ RefreshIdle
    /\ MoreIdle

Classify ==
    /\ sensor_type = "pending"
    /\ sensor_type' = determine_sensor_type(value)
    /\ UNCHANGED <<value, apiVars, refreshVars, moreVars>>

ClassifyNext == Classify

SpecClassify == ClassifyInit /\ [][ClassifyNext]_vars

\* C10: classification precedence. Once a value is classified: a unit of the
\* physical-unit table gives the numeric sensor whatever the code (a binary
\* or enumerated-state code included); an empty unit with a code of the
\* binary table gives the binary switch; an empty unit with a code of the
\* enumerated-state table gives the enumerated string sensor.
C10_ClassificationPrecedence ==
    sensor_type # "pending" =>
        /\ value.unit \in DOMAIN ETA_SENSOR_UNITS => sensor_type = "sensor"
        /\ (value.unit = "" /\ value.value \in {"1802", "1803"})
               => sensor_type = "binary_sensor"
        /\ (value.unit = "" /\ value.value \in DOMAIN ETA_STRING_SENSOR_VALUES_DE)
               => sensor_type = "string_sensor"

\* A degree-Celsius value carrying the binary code 1802 has been classified.
C10_Witness ==
    /\ sensor_type = "sensor"
    /\ value.unit = "degC"
    /\ value.value = "1802"

\* The decision order as documented: the physical-unit table, then the
\* enumerated-state table, then the binary table, otherwise unclassifiable.
DocumentedOrder(v) ==
    IF v.unit \in DOMAIN ETA_SENSOR_UNITS THEN "sensor"
    ELSE IF v.value \in DOMAIN ETA_STRING_SENSOR_VALUES_DE THEN "string_sensor"
    ELSE IF v.value \in DOMAIN ETA_BINARY_SENSOR_VALUES_DE THEN "binary_sensor"
    ELSE None

\* The value matches one of the three tables.
MatchesATable(v) ==
    \/ v.unit \in DOMAIN ETA_SENSOR_UNITS
    \/ v.value \in DOMAIN ETA_STRING_SENSOR_VALUES_DE
    \/ v.value \in DOMAIN ETA_BINARY_SENSOR_VALUES_DE

Classified == sensor_type # "pending"

\* C28: the units a decoded value can carry are the keys of the physical-unit
\* table and the empty string; a classified value of a non-empty unit is a
\* numeric sensor, and the unit of every value classified as numeric sensor
\* is a key of the table, so that ETA_SENSOR_UNITS[value.unit], the device
\* class the sensor entity is created with, is defined.
C28_UnitsAreTheUnitTable ==
    Classified =>
        /\ ValueUnits = DOMAIN ETA_SENSOR_UNITS \cup {""}
        /\ value.unit \in ValueUnits
        /\ value.unit # "" => sensor_type = "sensor"
        /\ sensor_type = "sensor" => value.unit \in DOMAIN ETA_SENSOR_UNITS

\* A relative-humidity value has been classified as numeric sensor, of
\* device class HUMIDITY.
C28_Witness ==
    /\ sensor_type = "sensor"
    /\ value.unit = "%rH"
    /\ ETA_SENSOR_UNITS[value.unit] = "HUMIDITY"

\* C11 as stated: for every fetched value, determine_sensor_type returns what
\* the documented decision order (unit table, enumerated-state table, binary
\* table, otherwise unclassifiable) returns.
C11_EqualsDocumentedOrder ==
    Classified => sensor_type = DocumentedOrder(value)

\* C11 amended: the two code tables are disjoint, and for every fetched value
\* that matches one of the three tables or has an empty display text,
\* determine_sensor_type returns what the documented decision order returns;
\* a value that matches no table and has a display text is a string sensor.
C11_EqualsDocumentedOrderOnTables ==
    /\ DOMAIN ETA_STRING_SENSOR_VALUES_DE \cap DOMAIN ETA_BINARY_SENSOR_VALUES_DE = {}
    /\ Classified =>
          /\ (MatchesATable(value) \/ value.str_value = "")
                 => sensor_type = DocumentedOrder(value)
          /\ (~MatchesATable(value) /\ value.str_value # "")
                 => sensor_type = "string_sensor"

\* A unitless value carrying a binary code has been classified.
C11_Witness ==
    /\ sensor_type = "binary_sensor"
    /\ value.unit = ""
    /\ value.value = "1803"
    /\ value.str_value = "Ein"

\* C12 as stated: a value whose unit is not in the physical-unit table and
\* whose code is in neither code table is unclassifiable (None), whatever its
\* display text.
C12_NoTableIsUnclassifiable ==
    (Classified /\ ~MatchesATable(value)) => sensor_type = None

\* C12 amended: a value that matches no table is unclassifiable (None) exactly
\* when its display text is empty; with a display text it is a string sensor.
C12_NoTableFallsBackOnDisplayText ==
    (Classified /\ ~MatchesATable(value)) =>
        IF value.str_value = "" THEN sensor_type = None
        ELSE sensor_type = "string_sensor"

\* A value of no table and without display text has been classified.
C12_Witness ==
    /\ sensor_type = None
    /\ value.unit = ""
    /\ value.value = "4001"
    /\ value.str_value = ""

-----------------------------------------------------------------------------
(* api.sanitize_input.  A name is a sequence of characters; "ue" stands    *)
(* for the one character u-umlaut.                                         *)

MaxNameLen == 3

Chars == {"a", "b", ".", "-", " "}

RECURSIVE SeqsUpTo(_, _)
SeqsUpTo(S, n) ==
    IF n = 0 THEN {<<>>}
    ELSE LET shorter == SeqsUpTo(S, n - 1)
         IN  shorter \cup {Append(s, c) : s \in {t \in shorter : Len(t) = n - 1}, c \in S}

\* "Fuellen-Stufe.2" with u-umlaut.
SampleName ==
    <<"F", "ue", "l", "l", "e", "n", "-", "S", "t", "u", "f", "e", ".", "2">>

RawNames == SeqsUpTo(Chars, MaxNameLen) \cup {SampleName}

\* str.replace(old, new) for a one-character old; new is a string.
RECURSIVE Replace(_, _, _)
Replace(s, old, new) ==
    IF s = <<>> THEN <<>>
    ELSE (IF Head(s) = old THEN new ELSE <<Head(s)>>) \o Replace(Tail(s), old, new)

\* The hyphen replaced by a dot instead of a space.
sanitize_input_hyphen_to_dot(input_string) ==
    Replace(Replace(input_string, ".", <<>>), "-", <<".">>)

\* The hyphen deleted like the dot.
sanitize_input_hyphen_removed(input_string) ==
    Replace(Replace(input_string, ".", <<>>), "-", <<>>)

sanitize_input(input_string) ==
    Replace(Replace(input_string, ".", <<>>), "-", <<" ">>)

SanitizeInit ==
    /\ raw_name \in RawNames
    /\ name_pc = "raw"
    /\ sanitized = <<>>
    /\ resanitized = <<>>
    /\ ClassifyIdle
    /\ ApiIdle
    /\ RefreshIdle
    /\ MenuIdle
    /\ SensorIdle
    /\ SwitchIdle
    /\ LateIdle

\* sanitized_name of an object or unit named raw_name.
Sanitize ==
    /\ name_pc = "raw"
    /\ sanitized' = sanitize_input(raw_name)
    /\ name_pc' = "once"
    /\ UNCHANGED <<raw_name, resanitized, classifyVars, apiVars, refreshVars,
                   menuVars, sensorVars, switchVars, lateVars>>

\* sanitize_input handed its own output.
SanitizeAgain ==
    /\ name_pc = "once"
    /\ resanitized' = sanitize_input(sanitized)
    /\ name_pc' = "twice"
    /\ UNCHANGED <<raw_name, sanitized, classifyVars, apiVars, refreshVars,
                   menuVars, sensorVars, switchVars, lateVars>>

SanitizeNext ==
    \/ Sanitize
    \/ SanitizeAgain

SpecSanitize == SanitizeInit /\ [][SanitizeNext]_vars

\* The name read character by character: a dot gives nothing, a hyphen one
\* space, any other character itself.
RECURSIVE CharByChar(_)
CharByChar(n) ==
    IF n = <<>> THEN <<>>
    ELSE (CASE Head(n) = "." -> <<>>
            [] Head(n) = "-" -> <<" ">>
            [] OTHER -> <<Head(n)>>) \o CharByChar(Tail(n))

Contains(s, c) == \E i \in 1..Len(s) : s[i] = c

\* C16: sanitize(n) is n with every dot deleted and every hyphen replaced by
\* one space, all other characters kept in order; the result contains neither
\* a dot nor a hyphen; "Fuellen-Stufe.2" gives "Fuellen Stufe2".
C16_SanitizeCharacterwise ==
    name_pc \in {"once", "twice"} =>
        /\ sanitized = CharByChar(raw_name)
        /\ ~Contains(sanitized, ".")
        /\ ~Contains(sanitized, "-")
        /\ raw_name = SampleName =>
              sanitized = <<"F", "ue", "l", "l", "e", "n", " ", "S", "t", "u",
                            "f", "e", "2">>

\* "Fuellen-Stufe.2" has been sanitized.
C16_Witness ==
    /\ name_pc = "once"
    /\ raw_name = SampleName
    /\ Len(sanitized) = 13

\* C17 as stated: sanitize is not idempotent, there is a raw name n for which
\* sanitize(sanitize(n)) differs from sanitize(n).
C17_NotIdempotent ==
    name_pc = "twice" =>
        \E n \in RawNames \cup {raw_name} :
            sanitize_input(sanitize_input(n)) # sanitize_input(n)

\* C17 amended: sanitize is idempotent, a second pass over a sanitized name
\* changes nothing.
C17_Idempotent ==
    name_pc = "twice" => resanitized = sanitized

\* A name with a hyphen and a dot has been sanitized twice.
C17_Witness ==
    /\ name_pc = "twice"
    /\ raw_name = <<"a", "-", ".">>
    /\ resanitized = <<"a", " ">>

-----------------------------------------------------------------------------
(* api.Menu, api.Fub, api.Object: the naming pass that runs when a menu is  *)
(* decoded.  The tree is kept flat: every object names its parent, a unit   *)
(* <<"fub", k>> or an object <<"object", j>> decoded before it; the         *)
(* children of a node are the objects naming it, in list order.  Names     *)
(* and full names are sequences of characters.                              *)

MaxObjects == 3

\* The units of a menu.
FubSlots == {1, 2}

\* "Kessel", "Part.-Absch." and a name that sanitizes like the latter.
FubNames == {<<"K">>, <<"P", ".", "-", "A", ".">>, <<"P", " ", "A">>}

\* "Eingang" and two names with one sanitized form.
ObjectNames == {<<"E">>, <<"E", ".", "-", "V">>, <<"E", " ", "V">>}

Parents(i) ==
    {<<"fub", k>> : k \in FubSlots} \cup {<<"object", j>> : j \in 1..(i - 1)}

RECURSIVE ObjectLists(_)
ObjectLists(n) ==
    IF n = 0 THEN {<<>>}
    ELSE {Append(l, [name |-> nm, parent |-> p]) :
              l \in ObjectLists(n - 1), nm \in ObjectNames, p \in Parents(n)}

Menus ==
    [fubs : [FubSlots -> FubNames],
     objects : UNION {ObjectLists(n) : n \in 0..MaxObjects}]

\* node.objects: the indexes of the objects whose parent is p, in order.
Children(m, p) ==
    SelectSeq([i \in 1..Len(m.objects) |-> i],
              LAMBDA i : m.objects[i].parent = p)

\* Object.sanitized_name / Fub.sanitized_name
sanitized_name(raw) == sanitize_input(raw)

\* f"{a}.{b}"
Dotted(a, b) == a \o <<".">> \o b

\* Attributes of an Object right after its construction.
Unnamed == [namespace |-> <<>>, full_name |-> <<>>]

RECURSIVE update_namespace(_, _, _, _)
RECURSIVE UpdateEach(_, _, _, _)
\* Object.update_namespace on object i; nm is the naming so far.
update_namespace(m, nm, i, namespace) ==
    LET full == Dotted(namespace, sanitized_name(m.objects[i].name))
        nm1 == [nm EXCEPT ![i] = [namespace |-> <<namespace>>, full_name |-> full]]
    IN  UpdateEach(m, nm1, Children(m, <<"object", i>>), full)

\* for obj in self.objects: obj.update_namespace(self.full_name)
UpdateEach(m, nm, kids, namespace) ==
    IF kids = <<>> THEN nm
    ELSE UpdateEach(m, update_namespace(m, nm, Head(kids), namespace),
                    Tail(kids), namespace)

\* The body of the loop of Fub.model_post_init for the direct child i of
\* unit k, update_namespace called whether or not the child has children.
PostInitChild_always_updates(m, nm, k, i) ==
    LET ns == sanitized_name(m.fubs[k])
        nm1 == [nm EXCEPT ![i] =
                   [namespace |-> <<ns>>,
                    full_name |-> Dotted(m.fubs[k], sanitized_name(m.objects[i].name))]]
    IN  update_namespace(m, nm1, i, nm1[i].namespace[1])

\* The body of the loop of Fub.model_post_init for the direct child i of
\* unit k.
PostInitChild(m, nm, k, i) ==
    LET ns == sanitized_name(m.fubs[k])
        nm1 == [nm EXCEPT ![i] =
                   [namespace |-> <<ns>>,
                    full_name |-> Dotted(m.fubs[k], sanitized_name(m.objects[i].name))]]
    IN  IF Children(m, <<"object", i>>) # <<>>
        THEN update_namespace(m, nm1, i, nm1[i].namespace[1])
        ELSE nm1

RECURSIVE PostInitEach(_, _, _, _)
PostInitEach(m, nm, k, kids) ==
    IF kids = <<>> THEN nm
    ELSE PostInitEach(m, PostInitChild(m, nm, k, Head(kids)), k, Tail(kids))

\* Fub.model_post_init of unit k.
model_post_init(m, nm, k) == PostInitEach(m, nm, k, Children(m, <<"fub", k>>))

MenuInit ==
    /\ decoded_menu \in Menus
    /\ naming = [i \in 1..Len(decoded_menu.objects) |-> Unnamed]
    /\ fub_idx = 0
    /\ ClassifyIdle
    /\ ApiIdle
    /\ RefreshIdle
    /\ NamesIdle
    /\ SensorIdle
    /\ SwitchIdle
    /\ LateIdle

\* The decoder constructs the next unit of the menu; its model_post_init
\* names the unit's objects.
FubPostInit ==
    /\ fub_idx < Cardinality(FubSlots)
    /\ fub_idx' = fub_idx + 1
    /\ naming' = model_post_init(decoded_menu, naming, fub_idx + 1)
    /\ UNCHANGED <<decoded_menu, classifyVars, apiVars, refreshVars, nameVars,
                   sensorVars, switchVars, lateVars>>

MenuNext == FubPostInit

SpecMenu == MenuInit /\ [][MenuNext]_vars

\* The menu is decoded: every unit has been constructed.
MenuDecoded == fub_idx = Cardinality(FubSlots)

ObjectIds == 1..Len(decoded_menu.objects)

IsDirectChild(i) == decoded_menu.objects[i].parent[1] = "fub"

HasChildren(i) == Children(decoded_menu, <<"object", i>>) # <<>>

\* The dot-joined sanitized names of the unit and of all ancestors of i.
RECURSIVE SanitizedPath(_)
SanitizedPath(i) ==
    LET p == decoded_menu.objects[i].parent
    IN  IF p[1] = "fub" THEN sanitize_input(decoded_menu.fubs[p[2]])
        ELSE Dotted(SanitizedPath(p[2]), sanitize_input(decoded_menu.objects[p[2]].name))

\* C13: after a menu is decoded, for every object at every depth, namespace
\* is the dot-join of the sanitized names of the unit and of the object's
\* ancestors, and full_name is namespace + "." + sanitize(own raw name), for
\* leaf objects and for objects with children alike.
C13_FullNameIsSanitizedPath ==
    MenuDecoded =>
        \A i \in ObjectIds :
            /\ naming[i].namespace = <<SanitizedPath(i)>>
            /\ naming[i].full_name =
                   Dotted(SanitizedPath(i), sanitize_input(decoded_menu.objects[i].name))

\* C14 as stated: every direct child of a unit, with or without children of
\* its own, gets full_name = the unit's raw name + "." + sanitize(child raw
\* name) and namespace = the unit's sanitized name.
C14_DirectChildUsesRawUnitName ==
    MenuDecoded =>
        \A i \in ObjectIds :
            IsDirectChild(i) =>
                LET unit == decoded_menu.fubs[decoded_menu.objects[i].parent[2]]
                IN  /\ naming[i].full_name =
                           Dotted(unit, sanitize_input(decoded_menu.objects[i].name))
                    /\ naming[i].namespace = <<sanitize_input(unit)>>

\* C14 amended: every direct child of a unit gets namespace = the unit's
\* sanitized name; a direct child without children gets full_name = the
\* unit's raw name + "." + sanitize(child raw name); a direct child with
\* children gets full_name = the unit's sanitized name + "." +
\* sanitize(child raw name).
C14_DirectChildNaming ==
    MenuDecoded =>
        \A i \in ObjectIds :
            IsDirectChild(i) =>
                LET unit == decoded_menu.fubs[decoded_menu.objects[i].parent[2]]
                    own == sanitize_input(decoded_menu.objects[i].name)
                IN  /\ naming[i].namespace = <<sanitize_input(unit)>>
                    /\ naming[i].full_name =
                           IF HasChildren(i) THEN Dotted(sanitize_input(unit), own)
                           ELSE Dotted(unit, own)

\* A decoded menu whose unit "P.-A." has a direct child with a child and a
\* direct child without.
C14_Witness ==
    /\ MenuDecoded
    /\ decoded_menu.fubs[1] = <<"P", ".", "-", "A", ".">>
    /\ \E i, j \in ObjectIds :
          /\ decoded_menu.objects[i].parent = <<"fub", 1>>
          /\ decoded_menu.objects[j].parent = <<"fub", 1>>
          /\ HasChildren(i)
          /\ ~HasChildren(j)
          /\ naming[i].full_name = <<"P", " ", "A", ".", "E">>
          /\ naming[j].full_name = <<"P", ".", "-", "A", ".", ".", "E">>

\* No two units share a raw name and no two sibling objects share one.
DistinctRawNames ==
    /\ \A k, l \in FubSlots : k # l => decoded_menu.fubs[k] # decoded_menu.fubs[l]
    /\ \A i, j \in ObjectIds :
          (i # j /\ decoded_menu.objects[i].parent = decoded_menu.objects[j].parent)
              => decoded_menu.objects[i].name # decoded_menu.objects[j].name

\* C15: in every decoded menu in which no two units share a raw name and no
\* two sibling objects share a raw name, the full_name values of all objects
\* are pairwise distinct.
C15_FullNamesDistinct ==
    (MenuDecoded /\ DistinctRawNames) =>
        \A i, j \in ObjectIds : i # j => naming[i].full_name # naming[j].full_name

-----------------------------------------------------------------------------
(* api.py: exceptions.  Ancestors(e) is the set of classes e is an         *)
(* instance of, as an except clause tests it.                              *)

Ancestors(e) ==
    CASE e = "EtaApiClientError" -> {"EtaApiClientError", "Exception"}
      [] e = "EtaApiClientCommunicationError" ->
            {"EtaApiClientCommunicationError", "EtaApiClientError", "Exception"}
      [] e = "EtaApiClientAuthenticationError" ->
            {"EtaApiClientAuthenticationError", "EtaApiClientError", "Exception"}
      [] e = "TimeoutError" -> {"TimeoutError", "OSError", "Exception"}
      [] e = "gaierror" -> {"gaierror", "OSError", "Exception"}
      [] e = "ClientConnectorError" ->
            {"ClientConnectorError", "ClientError", "OSError", "Exception"}
      [] e = "ClientResponseError" ->
            {"ClientResponseError", "ClientError", "Exception"}
      [] OTHER -> {e, "Exception"}

IsInstance(e, cls) == cls \in Ancestors(e)

\* What a call gives its caller: a returned value or a raised exception.
Return(x) == [tag |-> "return", exc |-> None, val |-> <<x>>]
Raise(e) == [tag |-> "raise", exc |-> e, val |-> <<>>]

-----------------------------------------------------------------------------
(* The device's answers.  A request either raises in the session           *)
(* (timeout of async_timeout.timeout(10), DNS failure, connection refused, *)
(* any other exception) or yields a response with a status and a body.     *)
(* A body is the text of the response as Eta.from_xml decodes it: decoding *)
(* raises (fault), or gives the envelope's optional children, each <<>>    *)
(* when absent and <<x>> when present.                                     *)

Body(fault, api, val, menu) ==
    [fault |-> fault, version |-> "1.0", api |-> api, value |-> val,
     menu |-> menu, error |-> <<>>, success |-> <<>>]

ApiElement(v) == [version |-> v, uri |-> "/user/api"]

\* <value unit=.. uri=.. strValue=..>code</value> for the point at uri,
\* read when the device shows reading t.
DeviceValue(uri, t) ==
    [value |-> t, unit |-> "degC", uri |-> uri, str_value |-> t]

SampleVersions == {"1.2", "1.0", "1.20", ""}

Bodies(uri, t) ==
    {Body("XMLSyntaxError", <<>>, <<>>, <<>>),
     Body("ValidationError", <<>>, <<>>, <<>>),
     Body(None, <<>>, <<>>, <<>>),
     Body(None, <<>>, <<DeviceValue(uri, t)>>, <<>>),
     Body(None, <<>>, <<>>, <<[uri |-> "/user/menu", fubs |-> <<>>]>>),
     Body(None, <<>>, <<DeviceValue(uri, t)>>,
          <<[uri |-> "/user/menu", fubs |-> <<>>]>>)}
    \cup {Body(None, <<ApiElement(v)>>, <<>>, <<>>) : v \in SampleVersions}

SampleStatuses == {200, 204, 304, 401, 403, 404, 500}

\* Exceptions session.request raises: the request timeout, a DNS failure, a
\* refused connection, and one that is none of those.
SampleRequestErrors ==
    {"TimeoutError", "gaierror", "ClientConnectorError", "ValueError"}

NoBody == Body(None, <<>>, <<>>, <<>>)

Responded(status, body) ==
    [kind |-> "response", exc |-> None, status |-> status, body |-> body]

RequestFailed(e) ==
    [kind |-> "raise", exc |-> e, status |-> 0, body |-> NoBody]

Responses(uri, t) ==
    {Responded(s, b) : s \in SampleStatuses, b \in Bodies(uri, t)}
    \cup {RequestFailed(e) : e \in SampleRequestErrors}

\* class Error: <error uri=..>message</error>
Error(uri, error_message) ==
    [type |-> "Error", uri |-> uri, error_message |-> error_message]

\* class Success: <success uri=../>
Success(uri) == [type |-> "Success", uri |-> uri]

\* The uris an acknowledgement names: the one written to and another one.
AckUris(uri) == {uri, "/user/var/78/10101/0/0/12080"}

AckMessages == {"Value is out of range.", ""}

\* What the device answers to a POST on /user/var/<uri>: a success element,
\* an error element, neither, or a body that does not decode.
WriteBodies(uri) ==
    {[NoBody EXCEPT !.success = <<Success(u)>>] : u \in AckUris(uri)}
    \cup {[NoBody EXCEPT !.error = <<Error(u, msg)>>] :
              u \in AckUris(uri), msg \in AckMessages}
    \cup {NoBody, Body("XMLSyntaxError", <<>>, <<>>, <<>>)}

WriteResponses(uri) ==
    {Responded(s, b) : s \in SampleStatuses, b \in WriteBodies(uri)}
    \cup {RequestFailed(e) : e \in SampleRequestErrors}

-----------------------------------------------------------------------------
(* api.py: the transport                                                   *)

\* aiohttp.ClientResponse.raise_for_status: raises for a status of 400 and
\* above (ClientResponse.ok is 400 > status).
raise_for_status(response) ==
    IF response.status >= 400 THEN "ClientResponseError" ELSE None

\* What _verify_response_or_raise raises for the response (None: nothing).
verify_response_or_raise(response) ==
    IF response.status \in {401, 403}
    THEN "EtaApiClientAuthenticationError"
    ELSE raise_for_status(response)

\* The exception the try body of _api_wrapper raises for the answer, None
\* when it reaches `return response`.
TryBodyRaises(resp) ==
    IF resp.kind = "raise" THEN resp.exc ELSE verify_response_or_raise(resp)

\* The clause for aiohttp.ClientError and socket.gaierror left out.
ExceptClauses_no_client_error(e) ==
    IF IsInstance(e, "TimeoutError")
    THEN Raise("EtaApiClientCommunicationError")
    ELSE IF IsInstance(e, "Exception")
    THEN Raise("EtaApiClientError")
    ELSE Raise(e)

\* The except clauses of _api_wrapper, in their order.
ExceptClauses(e) ==
    IF IsInstance(e, "TimeoutError")
    THEN Raise("EtaApiClientCommunicationError")
    ELSE IF IsInstance(e, "ClientError") \/ IsInstance(e, "gaierror")
    THEN Raise("EtaApiClientCommunicationError")
    ELSE IF IsInstance(e, "Exception")
    THEN Raise("EtaApiClientError")
    ELSE Raise(e)

api_wrapper(resp) ==
    LET e == TryBodyRaises(resp)
    IN  IF e = None THEN Return(resp) ELSE ExceptClauses(e)

\* The same with an Eta model that has no error element.
parse_xml_response_without_error(resp) ==
    IF resp.body.fault # None THEN Raise(resp.body.fault)
    ELSE Return([resp.body EXCEPT !.error = <<>>])

\* EtaApiClient.parse_xml_response
parse_xml_response(resp) ==
    IF resp.body.fault # None THEN Raise(resp.body.fault) ELSE Return(resp.body)

\* The version is not compared: any capability info counts as supported.
does_endpoint_exist_any_version(resp) ==
    LET r == api_wrapper(resp)
    IN  IF r.tag = "raise" THEN r
        ELSE IF r.val[1].status # HTTP_OK THEN Return(FALSE)
        ELSE LET eta == parse_xml_response(r.val[1])
             IN  IF eta.tag = "raise" THEN eta
                 ELSE IF eta.val[1].api = <<>> THEN Raise("EtaApiClientError")
                 ELSE Return(TRUE)

does_endpoint_exist(resp) ==
    LET r == api_wrapper(resp)
    IN  IF r.tag = "raise" THEN r
        ELSE IF r.val[1].status # HTTP_OK THEN Return(FALSE)
        ELSE LET eta == parse_xml_response(r.val[1])
             IN  IF eta.tag = "raise" THEN eta
                 ELSE IF eta.val[1].api = <<>> THEN Raise("EtaApiClientError")
                 ELSE Return(eta.val[1].api[1].version = "1.2")

async_get_data(resp) ==
    LET r == api_wrapper(resp)
    IN  IF r.tag = "raise" THEN r
        ELSE LET eta == parse_xml_response(r.val[1])
             IN  IF eta.tag = "raise" THEN eta
                 ELSE IF eta.val[1].value = <<>> THEN Raise("EtaApiClientError")
                 ELSE Return(eta.val[1].value[1])

async_parse_menu(resp) ==
    LET r == api_wrapper(resp)
    IN  IF r.tag = "raise" THEN r ELSE parse_xml_response(r.val[1])

\* EtaApiClient.async_update_state: the POST goes through _api_wrapper, the
\* answer is decoded, and the success or error element it holds is returned.
async_update_state(resp) ==
    LET r == api_wrapper(resp)
    IN  IF r.tag = "raise" THEN r
        ELSE LET eta == parse_xml_response(r.val[1])
             IN  IF eta.tag = "raise" THEN eta
                 ELSE IF eta.val[1].success # <<>> THEN Return(eta.val[1].success[1])
                 ELSE IF eta.val[1].error # <<>> THEN Return(eta.val[1].error[1])
                 ELSE Raise("EtaApiClientError")

\* The points and readings the transport calls of SpecApi are made for.
SampleUri == "/120/10601/0/11328/0"
SampleReading == "199"

ApiInit ==
    /\ ApiIdle
    /\ value = NoValue
    /\ sensor_type = "pending"
    /\ RefreshIdle
    /\ MoreIdle

\* A caller awaits _api_wrapper itself.
CallApiWrapper ==
    /\ api_op = "idle"
    /\ \E resp \in Responses(SampleUri, SampleReading) :
          /\ api_resp' = resp
          /\ api_result' = api_wrapper(resp)
    /\ api_op' = "_api_wrapper"
    /\ UNCHANGED <<classifyVars, refreshVars, moreVars>>

CallDoesEndpointExist ==
    /\ api_op = "idle"
    /\ \E resp \in Responses(SampleUri, SampleReading) :
          /\ api_resp' = resp
          /\ api_result' = does_endpoint_exist(resp)
    /\ api_op' = "does_endpoint_exist"
    /\ UNCHANGED <<classifyVars, refreshVars, moreVars>>

CallAsyncGetData ==
    /\ api_op = "idle"
    /\ \E resp \in Responses(SampleUri, SampleReading) :
          /\ api_resp' = resp
          /\ api_result' = async_get_data(resp)
    /\ api_op' = "async_get_data"
    /\ UNCHANGED <<classifyVars, refreshVars, moreVars>>

CallAsyncParseMenu ==
    /\ api_op = "idle"
    /\ \E resp \in Responses(SampleUri, SampleReading) :
          /\ api_resp' = resp
          /\ api_result' = async_parse_menu(resp)
    /\ api_op' = "async_parse_menu"
    /\ UNCHANGED <<classifyVars, refreshVars, moreVars>>

CallAsyncUpdateState ==
    /\ api_op = "idle"
    /\ \E resp \in WriteResponses(SampleUri) :
          /\ api_resp' = resp
          /\ api_result' = async_update_state(resp)
    /\ api_op' = "async_update_state"
    /\ UNCHANGED <<classifyVars, refreshVars, moreVars>>

ApiNext ==
    \/ CallApiWrapper
    \/ CallDoesEndpointExist
    \/ CallAsyncGetData
    \/ CallAsyncParseMenu
    \/ CallAsyncUpdateState

SpecApi == ApiInit /\ [][ApiNext]_vars

ApiCalled == api_op # "idle"

GotStatus(statuses) ==
    /\ ApiCalled
    /\ api_resp.kind = "response"
    /\ api_resp.status \in statuses

ApiErrorKinds ==
    {"EtaApiClientError", "EtaApiClientCommunicationError",
     "EtaApiClientAuthenticationError"}

\* C3: every transport call (_api_wrapper and, through it, the value fetch,
\* the menu fetch and the capability check) that receives HTTP status 401
\* or 403 fails with EtaApiClientAuthenticationError.
C3_AuthStatusRaisesAuthenticationError ==
    GotStatus({401, 403}) => api_result = Raise("EtaApiClientAuthenticationError")

\* C6 as stated: a failed _api_wrapper call gives one of the three error
\* kinds; a timeout, a network-layer failure and every non-2xx status other
\* than 401/403 give EtaApiClientCommunicationError; any other exception
\* gives EtaApiClientError.
C6_EveryNon2xxIsCommunicationError ==
    api_op = "_api_wrapper" =>
        /\ api_result.tag = "raise" => api_result.exc \in ApiErrorKinds
        /\ (api_resp.kind = "raise"
              /\ api_resp.exc \in {"TimeoutError", "gaierror", "ClientConnectorError"})
               => api_result = Raise("EtaApiClientCommunicationError")
        /\ (api_resp.kind = "response"
              /\ api_resp.status \notin 200..299
              /\ api_resp.status \notin {401, 403})
               => api_result = Raise("EtaApiClientCommunicationError")
        /\ (api_resp.kind = "raise"
              /\ api_resp.exc \notin {"TimeoutError", "gaierror", "ClientConnectorError"})
               => api_result = Raise("EtaApiClientError")

\* C6 as amended: a failed _api_wrapper call gives one of the three error
\* kinds; a timeout, a network-layer failure and every status of 400 and
\* above other than 401/403 give EtaApiClientCommunicationError; any other
\* exception of the request gives EtaApiClientError; a status below 400 is
\* no failure, the response is returned.
C6_TransportFailureKinds ==
    api_op = "_api_wrapper" =>
        /\ api_result.tag = "raise" => api_result.exc \in ApiErrorKinds
        /\ (api_resp.kind = "raise"
              /\ api_resp.exc \in {"TimeoutError", "gaierror", "ClientConnectorError"})
               => api_result = Raise("EtaApiClientCommunicationError")
        /\ (api_resp.kind = "response"
              /\ api_resp.status >= 400
              /\ api_resp.status \notin {401, 403})
               => api_result = Raise("EtaApiClientCommunicationError")
        /\ (api_resp.kind = "raise"
              /\ api_resp.exc \notin {"TimeoutError", "gaierror", "ClientConnectorError"})
               => api_result = Raise("EtaApiClientError")
        /\ (api_resp.kind = "response" /\ api_resp.status < 400)
               => api_result = Return(api_resp)

\* A DNS failure of an _api_wrapper call has reached the caller as
\* EtaApiClientCommunicationError.
C6_Witness ==
    /\ api_op = "_api_wrapper"
    /\ api_resp.kind = "raise"
    /\ api_resp.exc = "gaierror"
    /\ api_result = Raise("EtaApiClientCommunicationError")

\* C7: the capability check returns False, and raises nothing, for every
\* non-200 status the device returns.
C7_Non200IsFalse ==
    (api_op = "does_endpoint_exist" /\ api_resp.kind = "response"
        /\ api_resp.status # 200)
        => api_result = Return(FALSE)

\* C8: on a 200 response that decodes, the capability check returns True if
\* and only if the capability info's version is "1.2", False for every other
\* version, and fails with EtaApiClientError when the envelope has no
\* capability info.
C8_CapabilityVersion ==
    (api_op = "does_endpoint_exist" /\ api_resp.kind = "response"
        /\ api_resp.status = 200 /\ api_resp.body.fault = None)
        => IF api_resp.body.api = <<>>
           THEN api_result = Raise("EtaApiClientError")
           ELSE /\ api_result.tag = "return"
                /\ api_result.val[1] \in BOOLEAN
                /\ api_result.val[1] <=> (api_resp.body.api[1].version = "1.2")

\* The capability check has answered False to a 200 response of version
\* "1.20".
C8_Witness ==
    /\ api_op = "does_endpoint_exist"
    /\ api_resp.kind = "response"
    /\ api_resp.status = 200
    /\ api_resp.body.api = <<ApiElement("1.20")>>
    /\ api_result = Return(FALSE)

\* The optional children of the envelope.
PayloadFields == {"api", "value", "menu", "error", "success"}

\* The payload fields a decoded envelope has populated.
Populated(eta) == {f \in PayloadFields : eta[f] # <<>>}

\* C25: the envelope a call decodes has at most one of its payload fields
\* (api, value, menu, error, success) populated.
C25_AtMostOnePayload ==
    (api_op = "async_parse_menu" /\ api_result.tag = "return")
    => Cardinality(Populated(api_result.val[1])) <= 1

\* The transport hands the device's answer to the write on: a status it
\* accepts and a body that decodes.
WriteAnswered ==
    /\ api_op = "async_update_state"
    /\ api_resp.kind = "response"
    /\ api_resp.status < 400
    /\ api_resp.body.fault = None

-----------------------------------------------------------------------------
(* coordinator.py: EtaDataUpdateCoordinator                                *)

MaxPoints == 4
MaxCycles == 2

\* The i-th point of the device: its uri and its dotted full name.
Uri(i) == <<"/120/10601/0", i>>
FullName(i) == <<"Kessel", i>>

\* A chosen point as the config entry stores it (Object.as_dict); a key the
\* stored dict lacks is <<>>.
Stored(uri, full_name) ==
    [uri |-> <<uri>>, name |-> <<full_name[2]>>, full_name |-> full_name]

StoredWithoutUri(full_name) ==
    [uri |-> <<>>, name |-> <<full_name[2]>>, full_name |-> full_name]

\* The stored lists: n points of distinct uris and full names for every n
\* up to MaxPoints; and, for the shorter ones, the same list with the last
\* point under the first one's full name, with the last point under the
\* first one's uri, and with the last dict lacking its uri.
ChosenConfigs ==
    {[i \in 1..n |-> Stored(Uri(i), FullName(i))] : n \in 0..MaxPoints}
    \cup {[i \in 1..n |->
              Stored(Uri(i), IF i = n THEN FullName(1) ELSE FullName(i))]
          : n \in 2..(MaxPoints - 1)}
    \cup {[i \in 1..n |->
              Stored(IF i = n THEN Uri(1) ELSE Uri(i), FullName(i))]
          : n \in 2..(MaxPoints - 1)}
    \cup {[i \in 1..n |->
              IF i = n THEN StoredWithoutUri(FullName(i))
              ELSE Stored(Uri(i), FullName(i))]
          : n \in 1..(MaxPoints - 1)}

\* Object.model_validate(obj) if it built full_name from the name again.
model_validate_recomputes_full_name(obj) ==
    IF obj.uri = <<>> \/ obj.name = <<>>
    THEN Raise("ValidationError")
    ELSE Return([uri |-> obj.uri[1], name |-> obj.name[1],
                 full_name |-> <<obj.full_name[1], obj.name[1]>>])

\* Object.model_validate(obj): uri and name are required.
model_validate(obj) ==
    IF obj.uri = <<>> \/ obj.name = <<>>
    THEN Raise("ValidationError")
    ELSE Return([uri |-> obj.uri[1], name |-> obj.name[1],
                 full_name |-> obj.full_name])

\* The chosen_objects property: the list and the cache it leaves, or the
\* exception the list comprehension raises before _cached_objects is set.
chosen_objects(entities, cached) ==
    IF cached # <<>>
    THEN [raised |-> None, objects |-> cached[1], cache |-> cached]
    ELSE IF \E i \in DOMAIN entities : model_validate(entities[i]).tag = "raise"
    THEN [raised |-> "ValidationError", objects |-> <<>>, cache |-> cached]
    ELSE LET objs == [i \in DOMAIN entities |-> model_validate(entities[i]).val[1]]
         IN  [raised |-> None, objects |-> objs, cache |-> <<objs>>]

\* The except clauses of _async_update_data: what leaves it when its try
\* body raises e.
UpdateExceptClauses(e) ==
    IF IsInstance(e, "ConfigEntryAuthFailed") THEN e
    ELSE IF IsInstance(e, "EtaApiClientAuthenticationError")
    THEN "ConfigEntryAuthFailed"
    ELSE IF IsInstance(e, "EtaApiClientError") THEN "UpdateFailed"
    ELSE e

\* A slot of the gather whose task has not finished.
Pending == [tag |-> "pending", exc |-> None, val |-> <<>>]

\* What the device may answer to GET /user/var/<uri> while it shows reading
\* t: the value, a value that does not decode (a missing attribute, a unit
\* outside the Literal), 401, or no answer within the timeout.
FetchResponses(uri, t) ==
    {Responded(200, Body(None, <<>>, <<DeviceValue(uri, t)>>, <<>>)),
     Responded(200, Body("ValidationError", <<>>, <<>>, <<>>)),
     Responded(401, NoBody),
     RequestFailed("TimeoutError")}

\* data[key] = v
Put(d, key, v) == [k \in DOMAIN d \cup {key} |-> IF k = key THEN v ELSE d[k]]

\* The cycle goes on writing into the dict of the previous cycle.
NewData_from_previous(prev) == IF prev = <<>> THEN EmptyMap ELSE prev[1]

\* `data: dict[str, Value] = {}`; prev is coordinator.data.
NewData(prev) == EmptyMap

\* A failed fetch is raised instead of skipped.
ProcessResult_failure_aborts(d, obj, result) ==
    IF result.tag = "raise"
       /\ IsInstance(result.exc, "EtaApiClientAuthenticationError")
    THEN [raised |-> "ConfigEntryAuthFailed", data |-> d]
    ELSE IF result.tag = "raise" /\ IsInstance(result.exc, "Exception")
    THEN [raised |-> result.exc, data |-> d]
    ELSE [raised |-> None, data |-> Put(d, obj.full_name, result.val[1])]

\* One pass of the loop over zip(objects, results): the exception it raises
\* (None: none) and the dict it leaves.
ProcessResult(d, obj, result) ==
    IF result.tag = "raise"
       /\ IsInstance(result.exc, "EtaApiClientAuthenticationError")
    THEN [raised |-> "ConfigEntryAuthFailed", data |-> d]
    ELSE IF result.tag = "raise" /\ IsInstance(result.exc, "Exception")
    THEN [raised |-> None, data |-> d]
    ELSE [raised |-> None, data |-> Put(d, obj.full_name, result.val[1])]

\* The url async_get_data is called with for obj.
RequestUrl(obj) == obj.uri

Objects == cached_objects[1]

RefreshInit ==
    /\ chosen_entities \in ChosenConfigs
    /\ RefreshFresh
    /\ ApiIdle
    /\ value = NoValue
    /\ sensor_type = "pending"
    /\ MoreIdle

\* The host calls _async_update_data: chosen_objects, then the gather
\* creates one task per object.
StartCycle ==
    /\ pc \in {"idle", "done"}
    /\ cycle < MaxCycles
    /\ cycle' = cycle + 1
    /\ LET co == chosen_objects(chosen_entities, cached_objects)
       IN  /\ cached_objects' = co.cache
           /\ IF co.raised # None
              THEN /\ pc' = "done"
                   /\ outcome' = Raise(UpdateExceptClauses(co.raised))
                   /\ results' = <<>>
              ELSE /\ pc' = "gather"
                   /\ outcome' = NoOutcome
                   /\ results' = [i \in DOMAIN co.objects |-> Pending]
    /\ in_flight' = EmptyMap
    /\ responses' = EmptyMap
    /\ data' = EmptyMap
    /\ idx' = 0
    /\ UNCHANGED <<chosen_entities, coordinator_data, published, classifyVars, apiVars, moreVars>>

\* The next task of the gather runs async_get_data up to its request.
StartFetch ==
    /\ pc = "gather"
    /\ \E i \in DOMAIN results :
          /\ results[i].tag = "pending"
          /\ i \notin DOMAIN in_flight
          /\ \A j \in 1..(i - 1) : results[j].tag # "pending" \/ j \in DOMAIN in_flight
          /\ in_flight' = [j \in DOMAIN in_flight \cup {i} |->
                              IF j = i THEN RequestUrl(Objects[i]) ELSE in_flight[j]]
    /\ UNCHANGED <<chosen_entities, cached_objects, coordinator_data, pc, cycle,
                   responses, results, data, idx, outcome, published,
                   classifyVars, apiVars, moreVars>>

\* The device answers a request in flight and the task's async_get_data ends.
CompleteFetch ==
    /\ pc = "gather"
    /\ \E i \in DOMAIN in_flight :
          \E resp \in FetchResponses(in_flight[i], cycle) :
             /\ in_flight' = [j \in DOMAIN in_flight \ {i} |-> in_flight[j]]
             /\ responses' = [j \in DOMAIN responses \cup {i} |->
                                 IF j = i THEN resp ELSE responses[j]]
             /\ results' = [results EXCEPT ![i] = async_get_data(resp)]
    /\ UNCHANGED <<chosen_entities, cached_objects, coordinator_data, pc, cycle,
                   data, idx, outcome, published, classifyVars, apiVars, moreVars>>

\* Every task has ended: the gather returns the result list and the loop
\* starts on a new dict.
GatherDone ==
    /\ pc = "gather"
    /\ \A i \in DOMAIN results : results[i].tag # "pending"
    /\ pc' = "loop"
    /\ data' = NewData(coordinator_data)
    /\ idx' = 1
    /\ UNCHANGED <<chosen_entities, cached_objects, coordinator_data, cycle,
                   in_flight, responses, results, outcome, published,
                   classifyVars, apiVars, moreVars>>

\* One pass of the loop.
LoopStep ==
    /\ pc = "loop"
    /\ idx <= Len(results)
    /\ LET r == ProcessResult(data, Objects[idx], results[idx])
       IN  IF r.raised # None
           THEN /\ pc' = "done"
                /\ outcome' = Raise(UpdateExceptClauses(r.raised))
                /\ UNCHANGED <<data, idx>>
           ELSE /\ data' = r.data
                /\ idx' = idx + 1
                /\ UNCHANGED <<pc, outcome>>
    /\ UNCHANGED <<chosen_entities, cached_objects, coordinator_data, cycle,
                   in_flight, responses, results, published, classifyVars, apiVars, moreVars>>

\* `return data`; the host's DataUpdateCoordinator assigns the returned dict
\* to coordinator.data (a cycle that raises leaves coordinator.data as it is).
ReturnData ==
    /\ pc = "loop"
    /\ idx > Len(results)
    /\ pc' = "done"
    /\ outcome' = Return(data)
    /\ coordinator_data' = <<data>>
    /\ published' = <<[cycle |-> cycle,
                       returned |-> {i \in DOMAIN results : results[i].tag = "return"}]>>
    /\ UNCHANGED <<chosen_entities, cached_objects, cycle, in_flight, responses,
                   results, data, idx, classifyVars, apiVars, moreVars>>

Next ==
    \/ StartCycle
    \/ StartFetch
    \/ CompleteFetch
    \/ GatherDone
    \/ LoopStep
    \/ ReturnData

Spec == RefreshInit /\ [][Next]_vars

-----------------------------------------------------------------------------
(* Refresh cycles: properties                                              *)

DistinctFullNames(objs) ==
    \A i, j \in DOMAIN objs : i # j => objs[i].full_name # objs[j].full_name

\* The device answered task i's request with a value that decodes.
FetchSucceeded(i) ==
    /\ i \in DOMAIN responses
    /\ responses[i].kind = "response"
    /\ responses[i].status = 200
    /\ responses[i].body.fault = None
    /\ responses[i].body.value # <<>>

\* The device refused task i's request with 401 or 403.
FetchUnauthorized(i) ==
    /\ i \in DOMAIN responses
    /\ responses[i].kind = "response"
    /\ responses[i].status \in {401, 403}

CycleEnded == pc = "done" /\ outcome.tag # "none"

\* C1: a cycle over points of pairwise distinct full names in which no fetch
\* ended with an authentication error does not raise, and the dict it
\* returns has exactly one entry per point whose fetch succeeded, under the
\* point's full_name, holding the value the device sent for the point's own
\* uri, and no entry for a point whose fetch failed.
C1_PartialFailureIsolation ==
    (/\ CycleEnded
     /\ cached_objects # <<>>
     /\ DistinctFullNames(Objects)
     /\ \A i \in DOMAIN results :
           results[i] # Raise("EtaApiClientAuthenticationError"))
    => /\ outcome.tag = "return"
       /\ DOMAIN outcome.val[1] =
             {Objects[i].full_name : i \in {j \in DOMAIN Objects : FetchSucceeded(j)}}
       /\ \A i \in DOMAIN Objects :
             FetchSucceeded(i) =>
                /\ outcome.val[1][Objects[i].full_name] = responses[i].body.value[1]
                /\ outcome.val[1][Objects[i].full_name].uri = Objects[i].uri

\* Of four chosen points the third timed out and the other three were
\* fetched: the cycle returned three entries.
C1_Witness ==
    /\ CycleEnded
    /\ Len(results) = 4
    /\ DistinctFullNames(Objects)
    /\ responses[3] = RequestFailed("TimeoutError")
    /\ \A i \in {1, 2, 4} : FetchSucceeded(i)
    /\ outcome.tag = "return"
    /\ Cardinality(DOMAIN outcome.val[1]) = 3

\* C2: a cycle in which the device refuses at least one point's fetch as
\* unauthorized ends with ConfigEntryAuthFailed, wherever that point is in
\* the list and whatever the other fetches gave, and returns no dict.
C2_AuthFailureEscalates ==
    (CycleEnded /\ \E i \in DOMAIN results : FetchUnauthorized(i))
    => outcome = Raise("ConfigEntryAuthFailed")

\* The dict of a cycle of reading t over objs in which the tasks of
\* `returned` gave a value: one entry per full name, of the last such point.
SnapshotOf(objs, returned, t) ==
    [fn \in {objs[i].full_name : i \in returned} |->
        LET last == CHOOSE i \in returned :
                       /\ objs[i].full_name = fn
                       /\ \A j \in returned : objs[j].full_name = fn => j <= i
        IN  DeviceValue(objs[last].uri, t)]

\* C4: at every moment coordinator.data is either absent (no cycle has
\* completed) or the complete dict of one completed cycle: of an earlier
\* cycle while a cycle is under way, and of the current cycle only once it
\* has returned; the dict a cycle builds starts empty and holds values of
\* that cycle only.
C4_SnapshotReplacedWhole ==
    /\ (coordinator_data = <<>>) <=> (published = <<>>)
    /\ coordinator_data # <<>> =>
          /\ coordinator_data[1] =
                SnapshotOf(Objects, published[1].returned, published[1].cycle)
          /\ published[1].cycle <= cycle
          /\ published[1].cycle = cycle => pc = "done"
    /\ pc = "loop" =>
          /\ idx = 1 => data = EmptyMap
          /\ \A fn \in DOMAIN data : data[fn].value = cycle

\* In the second cycle the loop has stored part of the new dict while
\* coordinator.data still is the first cycle's dict, with another key set.
C4_Witness ==
    /\ cycle = 2
    /\ pc = "loop"
    /\ idx > 1
    /\ data # EmptyMap
    /\ coordinator_data # <<>>
    /\ DOMAIN coordinator_data[1] # {}
    /\ DOMAIN coordinator_data[1] # DOMAIN data

\* C5: at no moment are more than 3 value requests in flight.
C5_AtMostThreeInFlight == Cardinality(DOMAIN in_flight) <= 3

\* C9: no exception other than UpdateFailed and ConfigEntryAuthFailed leaves
\* _async_update_data.
C9_OnlyUpdateFailedEscapes ==
    (CycleEnded /\ outcome.tag = "raise")
    => outcome.exc \in {"UpdateFailed", "ConfigEntryAuthFailed"}

\* `self.coordinator.data.get(self.entity_description.key)`, the first
\* statement of EtaSensor.native_value, EtaStringSensor.native_value and
\* EtaSwitch.is_on, each of which returns None when it gives None (<<>>).
data_get(d, key) == IF key \in DOMAIN d THEN <<d[key]>> ELSE <<>>

\* The value the entity created for the i-th chosen point reads.
EntityReads(i) == data_get(coordinator_data[1], Objects[i].full_name)

\* C22: after a cycle that returned, the entity of a point whose fetch
\* failed in it reads no value and so reports None, and the entity of a point
\* whose fetch succeeded in it reads a value, the reading of that cycle.
C22_FailedPointReportsNone ==
    (CycleEnded /\ outcome.tag = "return" /\ cached_objects # <<>>)
    => \A i \in DOMAIN Objects :
          /\ ~FetchSucceeded(i) => EntityReads(i) = <<>>
          /\ FetchSucceeded(i) =>
                /\ EntityReads(i) # <<>>
                /\ EntityReads(i)[1].value = cycle

\* The same over points of pairwise distinct full names.
C22_DistinctNamesReportNone ==
    (cached_objects # <<>> /\ DistinctFullNames(Objects))
    => C22_FailedPointReportsNone

-----------------------------------------------------------------------------
(* api.Value.scaled_value and sensor.EtaSensor.native_value.  The value    *)
(* text and the scale factor are strings, sequences of characters here; a  *)
(* float is kept exact as sign, numerator and denominator.                 *)

MaxRaw == 40

DigitChars == <<"0", "1", "2", "3", "4", "5", "6", "7", "8", "9">>

Digits == {DigitChars[i] : i \in 1..10}

DigitOf(c) == CHOOSE d \in 0..9 : DigitChars[d + 1] = c

\* The decimal text of a natural number, as the device writes a raw value.
RECURSIVE ToText(_)
ToText(n) ==
    IF n < 10 THEN <<DigitChars[n + 1]>>
    ELSE ToText(n \div 10) \o <<DigitChars[(n % 10) + 1]>>

\* Raw value texts: readings of both signs, 403 (40.3 degrees at scale 10),
\* and texts that are no number.
RawTexts ==
    {ToText(n) : n \in (0..MaxRaw) \cup {403}}
        \cup {<<"-">> \o ToText(n) : n \in 1..MaxRaw}
        \cup {<<>>, <<"x">>}

\* Scale factors the device sends, and a zero.
ScaleTexts == {ToText(n) : n \in {0, 1, 10, 100}}

RECURSIVE DigitsValue(_)
DigitsValue(t) ==
    IF t = <<>> THEN 0
    ELSE DigitsValue(SubSeq(t, 1, Len(t) - 1)) * 10 + DigitOf(t[Len(t)])

IsDigits(t) == t # <<>> /\ \A i \in 1..Len(t) : t[i] \in Digits

\* float(text) for the integer texts of a value element; any other text
\* raises ValueError.
float(t) ==
    IF IsDigits(t)
    THEN Return([neg |-> FALSE, num |-> DigitsValue(t), den |-> 1])
    ELSE IF t # <<>> /\ Head(t) = "-" /\ IsDigits(Tail(t))
    THEN Return([neg |-> TRUE, num |-> DigitsValue(Tail(t)), den |-> 1])
    ELSE Raise("ValueError")

\* a / b of two floats.
TrueDiv(a, b) ==
    IF b.num = 0 THEN Raise("ZeroDivisionError")
    ELSE Return([neg |-> (a.neg # b.neg), num |-> a.num * b.den, den |-> a.den * b.num])

\* a * b of two floats.
Mul(a, b) ==
    Return([neg |-> (a.neg # b.neg), num |-> a.num * b.num, den |-> a.den * b.den])

\* The digits of rem / den after the decimal point, den a power of ten.
RECURSIVE FracText(_, _)
FracText(rem, den) ==
    IF den = 1 THEN <<>>
    ELSE LET d == den \div 10
         IN  <<DigitChars[(rem \div d) + 1]>> \o FracText(rem % d, d)

RECURSIVE StripZeros(_)
StripZeros(t) ==
    IF t # <<>> /\ t[Len(t)] = "0" THEN StripZeros(SubSeq(t, 1, Len(t) - 1))
    ELSE t

\* str(f) of a float whose denominator is a power of ten: the shortest
\* decimal text, with at least one digit after the point.
str(f) ==
    LET frac == StripZeros(FracText(f.num % f.den, f.den))
    IN  (IF f.neg THEN <<"-">> ELSE <<>>)
            \o ToText(f.num \div f.den) \o <<".">>
            \o (IF frac = <<>> THEN <<"0">> ELSE frac)

\* The value multiplied by the scale factor.
scaled_value_multiplied(v) ==
    IF v.unit # ""
    THEN LET a == float(v.value)
             b == float(v.scale_factor)
             q == IF a.tag = "raise" THEN a
                  ELSE IF b.tag = "raise" THEN b
                  ELSE Mul(a.val[1], b.val[1])
         IN  IF q.tag = "raise" THEN q ELSE Return(str(q.val[1]))
    ELSE Return(<<>>)

\* Value.scaled_value; the unit "" it returns otherwise is the empty text.
scaled_value(v) ==
    IF v.unit # ""
    THEN LET a == float(v.value)
             b == float(v.scale_factor)
             q == IF a.tag = "raise" THEN a
                  ELSE IF b.tag = "raise" THEN b
                  ELSE TrueDiv(a.val[1], b.val[1])
         IN  IF q.tag = "raise" THEN q ELSE Return(str(q.val[1]))
    ELSE Return(<<>>)

\* return None
ReturnNone == [tag |-> "return", exc |-> None, val |-> <<>>]

\* EtaSensor.native_value
native_value(d, key) ==
    IF key \in DOMAIN d THEN scaled_value(d[key]) ELSE ReturnNone

SensorValues ==
    [value : RawTexts, unit : {"degC", ""}, uri : {SampleUri},
     str_value : {"20"}, scale_factor : ScaleTexts]

SensorKey == <<"Kessel", 1>>

\* A numeric sensor exists; the snapshot holds a value of its point or no
\* entry for it.
SensorInit ==
    /\ sensor_key = SensorKey
    /\ sensor_data \in {EmptyMap} \cup {Put(EmptyMap, SensorKey, v) : v \in SensorValues}
    /\ sensor_pc = "created"
    /\ sensor_value = NoOutcome
    /\ ClassifyIdle
    /\ ApiIdle
    /\ RefreshIdle
    /\ NamesIdle
    /\ MenuIdle
    /\ SwitchIdle
    /\ LateIdle

\* The host reads the sensor's native_value.
ReadNativeValue ==
    /\ sensor_pc = "created"
    /\ sensor_value' = native_value(sensor_data, sensor_key)
    /\ sensor_pc' = "read"
    /\ UNCHANGED <<sensor_data, sensor_key, classifyVars, apiVars, refreshVars,
                   nameVars, menuVars, switchVars, lateVars>>

SensorNext == ReadNativeValue

SpecSensor == SensorInit /\ [][SensorNext]_vars

\* The number a decimal text "-w.f" writes: sign, numerator, denominator.
DecimalOf(t) ==
    LET neg == t # <<>> /\ Head(t) = "-"
        u == IF neg THEN Tail(t) ELSE t
        dot == CHOOSE i \in 1..Len(u) : u[i] = "."
        frac == SubSeq(u, dot + 1, Len(u))
        pow[k \in 0..Len(frac)] == IF k = 0 THEN 1 ELSE 10 * pow[k - 1]
    IN  [neg |-> neg,
         num |-> DigitsValue(SubSeq(u, 1, dot - 1)) * pow[Len(frac)] + DigitsValue(frac),
         den |-> pow[Len(frac)]]

\* The snapshot's entry for the sensor is a numeric reading with a unit and
\* a non-zero scale factor.
ScalableEntry ==
    /\ sensor_key \in DOMAIN sensor_data
    /\ sensor_data[sensor_key].unit # ""
    /\ float(sensor_data[sensor_key].value).tag = "return"
    /\ float(sensor_data[sensor_key].scale_factor).tag = "return"
    /\ float(sensor_data[sensor_key].scale_factor).val[1].num # 0

\* C18: for a fetched value with a non-empty unit and a non-zero scale
\* factor, the numeric sensor reports for the point's entry in the snapshot
\* the text of the raw value divided by the scale factor ("403" with scale
\* factor "10" gives "40.3").
C18_ScaledValue ==
    (sensor_pc = "read" /\ ScalableEntry) =>
        LET v == sensor_data[sensor_key]
            raw == float(v.value).val[1]
            scale == float(v.scale_factor).val[1]
        IN  /\ sensor_value.tag = "return"
            /\ sensor_value.val # <<>>
            /\ LET out == DecimalOf(sensor_value.val[1])
               IN  /\ out.num * scale.num = raw.num * out.den
                   /\ out.neg = raw.neg
            /\ (v.value = <<"4", "0", "3">> /\ v.scale_factor = <<"1", "0">>)
                   => sensor_value.val[1] = <<"4", "0", ".", "3">>

\* The sensor has reported "40.3" for the raw value "403" of scale factor "10".
C18_Witness ==
    /\ sensor_pc = "read"
    /\ ScalableEntry
    /\ sensor_data[sensor_key].value = <<"4", "0", "3">>
    /\ sensor_data[sensor_key].scale_factor = <<"1", "0">>
    /\ sensor_value = Return(<<"4", "0", ".", "3">>)

-----------------------------------------------------------------------------
(* switch.EtaSwitch: turn-on and turn-off commands, and is_on read from    *)
(* coordinator.data.                                                       *)

MaxCommands == 2

\* class EtaSwitchStates with the codes swapped
EtaSwitchStates_swapped == [ON |-> "1802", OFF |-> "1803"]

\* class EtaSwitchStates
EtaSwitchStates == [ON |-> "1803", OFF |-> "1802"]

SwitchKey == <<"Kessel", 1>>

SwitchUrl == SampleUri

\* The switches the platform has created for two chosen points: the key is
\* the point's full_name, the url its uri.
SwitchEntities ==
    {[key |-> SwitchKey, url |-> SwitchUrl],
     [key |-> <<"Kessel", 2>>, url |-> "/120/10601/0/11328/1"]}

\* The value of a switch's point when the device shows code c.
SwitchValue(c) == [value |-> c, unit |-> "", uri |-> SwitchUrl, str_value |-> c]

SwitchCodes == {"1802", "1803", "0"}

\* Snapshots the coordinator publishes: each point off, on, with a code of no
\* table, or without an entry.
SwitchSnapshots ==
    UNION {[keys -> {SwitchValue(c) : c \in SwitchCodes}] :
              keys \in SUBSET {e.key : e \in SwitchEntities}}

\* EtaSwitch.is_on: None is <<>>.
is_on(d, key) ==
    IF key \notin DOMAIN d THEN <<>>
    ELSE IF d[key].value \notin DOMAIN ETA_BINARY_SENSOR_VALUES_DE THEN <<>>
    ELSE <<ETA_BINARY_SENSOR_VALUES_DE[d[key].value]>>

\* A switch exists for a chosen point; the host has read its state.
SwitchInit ==
    /\ switch_entity \in SwitchEntities
    /\ switch_command = None
    /\ switch_data \in SwitchSnapshots
    /\ ha_state = is_on(switch_data, switch_entity.key)
    /\ switch_pc = "ready"
    /\ switch_request = NoRequest
    /\ switch_ack = NoOutcome
    /\ commands = 0
    /\ refresh_requests = 0
    /\ ClassifyIdle
    /\ ApiIdle
    /\ RefreshIdle
    /\ NamesIdle
    /\ MenuIdle
    /\ SensorIdle
    /\ LateIdle

\* async_turn_on / async_turn_off up to the await of async_update_state.
SendCommand(command, state) ==
    /\ switch_pc \in {"ready", "done", "raised"}
    /\ commands < MaxCommands
    /\ commands' = commands + 1
    /\ switch_command' = command
    /\ switch_request' =
          [url |-> switch_entity.url, value |-> state,
           headers |-> "application/x-www-form-urlencoded"]
    /\ switch_ack' = NoOutcome
    /\ switch_pc' = "awaiting"
    /\ UNCHANGED <<switch_entity, switch_data, ha_state, refresh_requests,
                   classifyVars, apiVars, refreshVars, nameVars, menuVars, sensorVars,
                   lateVars>>

async_turn_on == SendCommand("on", EtaSwitchStates.ON)

async_turn_off == SendCommand("off", EtaSwitchStates.OFF)

\* async_update_state ends: an exception leaves async_turn_on / _off at the
\* await; a returned acknowledgement is logged and the refresh requested.
CommandAnswered ==
    /\ switch_pc = "awaiting"
    /\ \E resp \in WriteResponses(switch_request.url) :
          LET response == async_update_state(resp)
          IN  /\ switch_ack' = response
              /\ IF response.tag = "raise"
                 THEN /\ switch_pc' = "raised"
                      /\ UNCHANGED refresh_requests
                 ELSE /\ switch_pc' = "done"
                      /\ refresh_requests' = refresh_requests + 1
    /\ UNCHANGED <<switch_entity, switch_command, switch_data, ha_state,
                   switch_request, commands, classifyVars, apiVars, refreshVars,
                   nameVars, menuVars, sensorVars, lateVars>>

\* The coordinator publishes a snapshot (a scheduled or a requested
\* refresh) and the host reads is_on again.
CoordinatorUpdate ==
    /\ switch_pc # "idle"
    /\ \E d \in SwitchSnapshots :
          /\ switch_data' = d
          /\ ha_state' = is_on(d, switch_entity.key)
    /\ UNCHANGED <<switch_entity, switch_command, switch_pc, switch_request,
                   switch_ack, commands, refresh_requests, classifyVars, apiVars,
                   refreshVars, nameVars, menuVars, sensorVars, lateVars>>

SwitchNext ==
    \/ async_turn_on
    \/ async_turn_off
    \/ CommandAnswered
    \/ CoordinatorUpdate

SpecSwitch == SwitchInit /\ [][SwitchNext]_vars

\* Every command started has ended, by a return or by an exception.
NoCommandUnderWay == switch_pc \in {"ready", "done", "raised"}

\* C20: after every write attempt of a switch, whether the device
\* acknowledged success, returned an error element or the request itself
\* failed, a refresh of the coordinator has been requested; and the state
\* shown is the one read from the snapshot, never one set by the command.
C20_RefreshAfterEveryWrite ==
    /\ NoCommandUnderWay => refresh_requests = commands
    /\ ha_state = is_on(switch_data, switch_entity.key)

\* The code the snapshot holds for the switch's key (None without an entry).
SnapshotCode ==
    IF switch_entity.key \in DOMAIN switch_data
    THEN switch_data[switch_entity.key].value ELSE None

-----------------------------------------------------------------------------
(* sensor.EtaStringSensor: native_value read from coordinator.data.        *)

StringKey == <<"Kessel", 3>>

\* Snapshots the string sensor reads: without an entry for its key, or with
\* a decoded value of any code, unit and display text.
StringSnapshots ==
    {EmptyMap} \cup {Put(EmptyMap, StringKey, v) : v \in ClassifyInputs}

\* EtaStringSensor.native_value
EtaStringSensor_native_value(d, key) ==
    IF key \notin DOMAIN d THEN ReturnNone
    ELSE IF d[key].value \notin DOMAIN ETA_STRING_SENSOR_VALUES_DE THEN ReturnNone
    ELSE Return(ETA_STRING_SENSOR_VALUES_DE[d[key].value])

\* A string sensor exists for a chosen point; the coordinator holds a
\* snapshot.
StringInit ==
    /\ string_data \in StringSnapshots
    /\ string_pc = "created"
    /\ string_value = NoOutcome
    /\ EarlyIdle
    /\ FlowIdle
    /\ SetupIdle
    /\ LastIdle

\* The host reads the state of the string sensor.
ReadStringNativeValue ==
    /\ string_pc = "created"
    /\ string_pc' = "read"
    /\ string_value' = EtaStringSensor_native_value(string_data, StringKey)
    /\ UNCHANGED <<string_data, besidesString>>

StringNext == ReadStringNativeValue

SpecStringSensor == StringInit /\ [][StringNext]_vars

\* The snapshot holds a value for the sensor's key that determine_sensor_type
\* classifies as string sensor.
StringSensorEntry ==
    /\ StringKey \in DOMAIN string_data
    /\ determine_sensor_type(string_data[StringKey]) = "string_sensor"

\* C29: for a snapshot value classified as string sensor the string sensor
\* reports a state, not None: the text of the enumerated-state table for a
\* code of the table, and the value's display text (strValue) for a value
\* classified by the unitless fallback.
C29_StringSensorReportsState ==
    (string_pc = "read" /\ StringSensorEntry)
    => LET v == string_data[StringKey]
       IN  /\ string_value # ReturnNone
           /\ v.value \in DOMAIN ETA_STRING_SENSOR_VALUES_DE
                  => string_value = Return(ETA_STRING_SENSOR_VALUES_DE[v.value])
           /\ v.value \notin DOMAIN ETA_STRING_SENSOR_VALUES_DE
                  => string_value = Return(v.str_value)

\* For a code of the enumerated-state table the sensor reports the table's
\* text, whatever the display text.
C29_TableCodeReportsText ==
    (string_pc = "read" /\ StringKey \in DOMAIN string_data
        /\ string_data[StringKey].value \in DOMAIN ETA_STRING_SENSOR_VALUES_DE)
    => string_value =
          Return(ETA_STRING_SENSOR_VALUES_DE[string_data[StringKey].value])

-----------------------------------------------------------------------------
(* config_flow.EtaFlowHandler: the setup flow, step by step; the first     *)
(* step of config_flow.EtaOptionsFlowHandler; and the reconstruction of    *)
(* the stored points by coordinator.chosen_objects.                        *)

\* What the user may type into the host/port form.
FlowInputs ==
    {<<"192.168.0.5", "8080">>, <<"192.168.0.5", "8081">>, <<"192.168.0.6", "8080">>}

\* <object uri=.. name=..> of the menu after the naming pass.
MenuObject(uri, name, full_name, objects) ==
    [type |-> "Object", uri |-> uri, name |-> name, full_name |-> full_name,
     objects |-> objects]

\* <fub name="Kessel"> with three objects, the second a child of the first;
\* third_name is the full name of the third.
KesselFub(third_name) ==
    [type |-> "Fub", name |-> "Kessel", sanitized_name |-> "Kessel",
     objects |->
        <<MenuObject(Uri(1), 1, FullName(1),
                     <<MenuObject(Uri(2), 2, FullName(2), <<>>)>>),
          MenuObject(Uri(3), 3, third_name, <<>>)>>]

\* Menus a device answers with: no unit, a unit of three objects of distinct
\* full names, and one whose third object has the full name of the first.
FlowMenus ==
    {[uri |-> "/user/menu", fubs |-> <<>>],
     [uri |-> "/user/menu", fubs |-> <<KesselFub(FullName(3))>>],
     [uri |-> "/user/menu", fubs |-> <<KesselFub(FullName(1))>>]}

\* Answers to GET /user/api.
FlowApiResponses ==
    {Responded(200, Body(None, <<ApiElement(v)>>, <<>>, <<>>)) : v \in {"1.2", "1.0"}}
    \cup {Responded(200, NoBody), Responded(200, Body("XMLSyntaxError", <<>>, <<>>, <<>>)),
          Responded(204, NoBody), Responded(404, NoBody),
          RequestFailed("TimeoutError")}

\* Answers to GET /user/menu.
FlowMenuResponses ==
    {Responded(200, Body(None, <<>>, <<>>, <<m>>)) : m \in FlowMenus}
    \cup {Responded(200, NoBody), Responded(200, Body("XMLSyntaxError", <<>>, <<>>, <<>>)),
          Responded(401, NoBody), RequestFailed("TimeoutError")}

\* <value unit="" strValue="Ein">1803</value>
BinaryValue(uri) == [value |-> "1803", unit |-> "", uri |-> uri, str_value |-> "Ein"]

\* Answers to GET /user/var/<uri>: a numeric value, a binary value, none.
FlowFetchResponses(uri) ==
    {Responded(200, Body(None, <<>>, <<DeviceValue(uri, SampleReading)>>, <<>>)),
     Responded(200, Body(None, <<>>, <<BinaryValue(uri)>>, <<>>)),
     RequestFailed("TimeoutError")}

\* What a step returns to the host: a form, an entry, an abort; or the
\* exception that left the step.
NoResult == [type |-> "none", step_id |-> None, errors |-> None, reason |-> None]
ShowForm(step_id, errors) ==
    [type |-> "form", step_id |-> step_id, errors |-> errors, reason |-> None]
CreateEntry == [type |-> "create_entry", step_id |-> None, errors |-> None, reason |-> None]
Abort(reason) == [type |-> "abort", step_id |-> None, errors |-> None, reason |-> reason]
Escaped(exc) == [type |-> "raise", step_id |-> None, errors |-> None, reason |-> exc]

\* class ConfigurationFlowData; NoFlowData before it is constructed.
ConfigurationFlowData(host, port, discovered_entities) ==
    [host |-> host, port |-> port, discovered_entities |-> discovered_entities,
     chosen_entities |-> <<>>, selected_fub_names |-> {}, sensor_names |-> {},
     switch_names |-> {}]

NoFlowData == ConfigurationFlowData(None, None, NoBody)

\* What the last submitted host/port form did: the input, what the
\* capability check gave, and what the menu fetch gave (NoOutcome: not made).
NoSubmit == [input |-> <<>>, check |-> NoOutcome, menu |-> NoOutcome]

\* No selection form submitted yet.
NoSelection == [step |-> None, names |-> {}]

\* f"{user_input[CONF_HOST]}:{user_input[CONF_PORT]}"
UniqueId(user_input) == user_input[1] \o ":" \o user_input[2]

\* A flow that never finds its unique id configured.
AlreadyConfigured_never(unique_id, entries) == FALSE

\* _abort_if_unique_id_configured: an entry with the flow's unique id exists.
AlreadyConfigured(unique_id, entries) == unique_id \in entries

\* A step that takes every selection for a selection of something.
EmptySelection_never(selected) == FALSE

\* `if not selected:`, `if not user_input[CHOSEN_ENTITIES]:`
EmptySelection(selected) == selected = {}

RECURSIVE Concat(_)
Concat(seqs) == IF seqs = <<>> THEN <<>> ELSE Head(seqs) \o Concat(Tail(seqs))

\* _get_objects_recursively
RECURSIVE get_objects_recursively(_)
get_objects_recursively(d) ==
    LET below == Concat([i \in DOMAIN d.objects |->
                            get_objects_recursively(d.objects[i])])
    IN  IF d.type = "Object" THEN Append(below, d) ELSE below

\* Object.as_dict, of which the stored keys uri, name and full_name are
\* kept (the keys sanitized_name, namespace and objects are not read back).
Object_as_dict(obj) ==
    [uri |-> <<obj.uri>>, name |-> <<obj.name>>, full_name |-> obj.full_name]

\* ConfigurationFlowData.as_dict
as_dict(d) ==
    [host |-> d.host, port |-> d.port,
     chosen_entities |-> [i \in DOMAIN d.chosen_entities |->
                             Object_as_dict(d.chosen_entities[i])]]

\* EtaFlowHandler._get_fubs
get_fubs(d) ==
    IF d.discovered_entities.menu = <<>> THEN Raise("EtaApiClientError")
    ELSE Return(d.discovered_entities.menu[1].fubs)

\* The objects of the selected units, as async_step_select_entities lists them.
SelectableObjects(d) ==
    LET fubs == get_fubs(d).val[1]
    IN  Concat([i \in DOMAIN fubs |->
                   IF fubs[i].sanitized_name \in d.selected_fub_names
                   THEN get_objects_recursively(fubs[i]) ELSE <<>>])

\* The test of _classify_entities' loop that appends a name to switch_names:
\* the fetch gave a value and determine_sensor_type calls it binary.
IsSwitch(fetched) ==
    /\ fetched.tag = "return"
    /\ determine_sensor_type(fetched.val[1]) = "binary_sensor"

\* _classify_entities: fetched[i] is what async_get_data gave for objects[i];
\* an exception counts the point as a sensor.
classify_entities(objects, fetched) ==
    LET switches == {i \in DOMAIN objects : IsSwitch(fetched[i])}
    IN  [sensor_names |-> {objects[i].full_name : i \in DOMAIN objects \ switches},
         switch_names |-> {objects[i].full_name : i \in switches}]

\* The host/port step that goes on to the menu whatever the check returned.
UserStep_ignores_check(user_input, url_valid, possible_endpoints, errors, d) ==
    IF url_valid.tag = "raise"
    THEN [result |-> Escaped(url_valid.exc), step |-> "user", errors |-> errors,
          data |-> d, menu |-> NoOutcome]
    ELSE IF possible_endpoints.tag = "raise"
    THEN [result |-> Escaped(possible_endpoints.exc), step |-> "user",
          errors |-> errors, data |-> d, menu |-> possible_endpoints]
    ELSE LET new == ConfigurationFlowData(user_input[1], user_input[2],
                                          possible_endpoints.val[1])
         IN  IF get_fubs(new).tag = "raise"
             THEN [result |-> Escaped(get_fubs(new).exc), step |-> "user",
                   errors |-> errors, data |-> new, menu |-> possible_endpoints]
             ELSE [result |-> ShowForm("select_fubs", errors),
                   step |-> "select_fubs", errors |-> errors, data |-> new,
                   menu |-> possible_endpoints]

\* async_step_user with user_input, after _abort_if_unique_id_configured:
\* url_valid is what _test_url gave and possible_endpoints what
\* _get_possible_endpoints gives if it is called; errors is self._errors and
\* d self.configuration_flow_data.  The step it ends in, the result, and
\* what it leaves in self._errors and self.configuration_flow_data.
UserStep(user_input, url_valid, possible_endpoints, errors, d) ==
    IF url_valid.tag = "raise"
    THEN [result |-> Escaped(url_valid.exc), step |-> "user", errors |-> errors,
          data |-> d, menu |-> NoOutcome]
    ELSE IF url_valid.val[1]
    THEN IF possible_endpoints.tag = "raise"
         THEN [result |-> Escaped(possible_endpoints.exc), step |-> "user",
               errors |-> errors, data |-> d, menu |-> possible_endpoints]
         ELSE LET new == ConfigurationFlowData(user_input[1], user_input[2],
                                               possible_endpoints.val[1])
              IN  IF get_fubs(new).tag = "raise"
                  THEN [result |-> Escaped(get_fubs(new).exc), step |-> "user",
                        errors |-> errors, data |-> new, menu |-> possible_endpoints]
                  ELSE [result |-> ShowForm("select_fubs", errors),
                        step |-> "select_fubs", errors |-> errors, data |-> new,
                        menu |-> possible_endpoints]
    ELSE [result |-> ShowForm("user", "url_broken"), step |-> "user",
          errors |-> "url_broken", data |-> d, menu |-> NoOutcome]

\* The host shows the host/port form of a new flow; under the unique id of
\* the first input an entry may exist already.
FlowInit ==
    /\ flow_step = "user"
    /\ flow_result = ShowForm("user", None)
    /\ flow_errors = None
    /\ flow_data = NoFlowData
    /\ flow_entry = <<>>
    /\ flow_checked = {}
    /\ flow_last = NoSubmit
    /\ configured \in {{}, {"192.168.0.5:8080"}}
    /\ options_result = NoResult
    /\ flow_loaded = NoOutcome
    /\ flow_selection = NoSelection
    /\ flow_fetched = <<>>
    /\ EarlyIdle
    /\ StringIdle
    /\ SetupIdle
    /\ LastIdle

\* EtaFlowHandler.async_step_user(user_input)
async_step_user ==
    /\ flow_step = "user"
    /\ \E user_input \in FlowInputs :
          IF AlreadyConfigured(UniqueId(user_input), configured)
          THEN /\ flow_result' = Abort("already_configured")
               /\ flow_step' = "finished"
               /\ flow_last' = [NoSubmit EXCEPT !.input = <<user_input>>]
               /\ UNCHANGED <<flow_errors, flow_data, flow_checked>>
          ELSE \E api_resp_ \in FlowApiResponses, menu_resp \in FlowMenuResponses :
                  LET url_valid == does_endpoint_exist(api_resp_)
                      step == UserStep(user_input, url_valid,
                                       async_parse_menu(menu_resp), flow_errors,
                                       flow_data)
                  IN  /\ flow_result' = step.result
                      /\ flow_step' = step.step
                      /\ flow_errors' = step.errors
                      /\ flow_data' = step.data
                      /\ flow_checked' =
                            IF url_valid = Return(TRUE)
                            THEN flow_checked \cup {user_input} ELSE flow_checked
                      /\ flow_last' = [input |-> <<user_input>>, check |-> url_valid,
                                       menu |-> step.menu]
    /\ UNCHANGED <<flow_entry, configured, options_result, flow_loaded,
                   flow_selection, flow_fetched, besidesFlow>>

\* EtaFlowHandler.async_step_select_fubs(user_input)
async_step_select_fubs ==
    /\ flow_step = "select_fubs"
    /\ \E selected \in SUBSET {"Kessel"} :
          /\ flow_selection' = [step |-> "select_fubs", names |-> selected]
          /\ IF EmptySelection(selected)
             THEN /\ flow_errors' = "no_fubs_selected"
                  /\ flow_result' = ShowForm("select_fubs", "no_fubs_selected")
                  /\ UNCHANGED <<flow_step, flow_data>>
             ELSE /\ flow_data' = [flow_data EXCEPT !.selected_fub_names = selected]
                  /\ flow_result' = ShowForm("select_entities", flow_errors)
                  /\ flow_step' = "select_entities"
                  /\ UNCHANGED flow_errors
    /\ UNCHANGED <<flow_entry, flow_checked, flow_last, configured, options_result,
                   flow_loaded, flow_fetched, besidesFlow>>

\* EtaFlowHandler.async_step_select_entities(user_input)
async_step_select_entities ==
    /\ flow_step = "select_entities"
    /\ LET objects == SelectableObjects(flow_data)
       IN  \E names \in SUBSET {objects[i].full_name : i \in DOMAIN objects} :
              /\ flow_selection' = [step |-> "select_entities", names |-> names]
              /\ IF EmptySelection(names)
                 THEN /\ flow_errors' = "no_entities_selected"
                      /\ flow_result' = ShowForm("select_entities", "no_entities_selected")
                      /\ UNCHANGED <<flow_step, flow_data, flow_entry, flow_fetched>>
                 ELSE LET chosen == SelectSeq(objects, LAMBDA o : o.full_name \in names)
                      IN  \E answers \in [DOMAIN chosen ->
                                             FlowFetchResponses(SampleUri)] :
                             LET fetched == [i \in DOMAIN chosen |->
                                                async_get_data(answers[i])]
                                 kinds == classify_entities(chosen, fetched)
                                 d == [flow_data EXCEPT
                                          !.chosen_entities = chosen,
                                          !.sensor_names = kinds.sensor_names,
                                          !.switch_names = kinds.switch_names]
                             IN  /\ flow_data' = d
                                 /\ flow_fetched' =
                                       [i \in DOMAIN chosen |->
                                           [point |-> chosen[i],
                                            switch |-> IsSwitch(fetched[i])]]
                                 /\ UNCHANGED flow_errors
                                 /\ IF kinds.switch_names # {}
                                    THEN /\ flow_result' =
                                               ShowForm("confirm_switches", flow_errors)
                                         /\ flow_step' = "confirm_switches"
                                         /\ UNCHANGED flow_entry
                                    ELSE /\ flow_result' = CreateEntry
                                         /\ flow_step' = "finished"
                                         /\ flow_entry' = <<as_dict(d)>>
    /\ UNCHANGED <<flow_checked, flow_last, configured, options_result, flow_loaded,
                   besidesFlow>>

\* EtaFlowHandler.async_step_confirm_switches(user_input)
async_step_confirm_switches ==
    /\ flow_step = "confirm_switches"
    /\ \E confirmed_switches \in SUBSET flow_data.switch_names :
          /\ flow_selection' = [step |-> "confirm_switches",
                                names |-> confirmed_switches]
          /\ LET keep_names == flow_data.sensor_names \cup confirmed_switches
                 d == [flow_data EXCEPT !.chosen_entities =
                          SelectSeq(flow_data.chosen_entities,
                                    LAMBDA o : o.full_name \in keep_names)]
             IN  /\ flow_data' = d
                 /\ flow_entry' = <<as_dict(d)>>
    /\ flow_result' = CreateEntry
    /\ flow_step' = "finished"
    /\ UNCHANGED <<flow_errors, flow_checked, flow_last, configured, options_result,
                   flow_loaded, flow_fetched, besidesFlow>>

\* EtaOptionsFlowHandler.async_step_init, on the entry the setup flow made.
options_async_step_init ==
    /\ flow_entry # <<>>
    /\ options_result = NoResult
    /\ \E menu_resp \in FlowMenuResponses :
          LET discovered == async_parse_menu(menu_resp)
          IN  options_result' =
                 IF discovered.tag = "raise"
                 THEN IF IsInstance(discovered.exc, "EtaApiClientError")
                      THEN Abort("cannot_connect")
                      ELSE Escaped(discovered.exc)
                 ELSE IF discovered.val[1].menu = <<>>
                         \/ discovered.val[1].menu[1].fubs = <<>>
                 THEN Abort("no_entities")
                 ELSE ShowForm("select_fubs", None)
    /\ UNCHANGED <<flow_step, flow_result, flow_errors, flow_data, flow_entry,
                   flow_checked, flow_last, configured, flow_loaded, flow_selection,
                   flow_fetched, besidesFlow>>

\* The integration is set up from the new entry: coordinator.chosen_objects
\* reconstructs the stored points.
LoadEntry ==
    /\ flow_entry # <<>>
    /\ flow_loaded = NoOutcome
    /\ LET co == chosen_objects(flow_entry[1].chosen_entities, <<>>)
       IN  flow_loaded' =
              IF co.raised # None THEN Raise(co.raised) ELSE Return(co.objects)
    /\ UNCHANGED <<flow_step, flow_result, flow_errors, flow_data, flow_entry,
                   flow_checked, flow_last, configured, options_result,
                   flow_selection, flow_fetched, besidesFlow>>

FlowNext ==
    \/ async_step_user
    \/ async_step_select_fubs
    \/ async_step_select_entities
    \/ async_step_confirm_switches
    \/ options_async_step_init
    \/ LoadEntry

SpecFlow == FlowInit /\ [][FlowNext]_vars

\* The capability check of the last submitted host/port form failed: it
\* raised or returned False.
CheckFailed == flow_last.check.tag = "raise" \/ flow_last.check = Return(FALSE)

\* The flow fetched the menu for the last submitted form and the fetch raised.
MenuFetchFailed == flow_last.menu.tag = "raise"

\* The result carries an error key: a form its errors, an abort its reason.
CarriesErrorKey(result) ==
    \/ result.type = "form" /\ result.errors # None
    \/ result.type = "abort" /\ result.reason # None

\* C23: no exception leaves a step of the setup flow or the first step of
\* the options flow; after a failed capability check or a failed menu fetch
\* the setup flow shows a form, or aborts, with an error key, and the
\* options flow ends its first step with a form or with an abort that has a
\* reason.
C23_FailuresShowErrorKey ==
    /\ flow_result.type # "raise"
    /\ options_result.type # "raise"
    /\ (flow_step = "user" /\ (CheckFailed \/ MenuFetchFailed))
          => CarriesErrorKey(flow_result)
    /\ options_result.type \notin {"none", "form"} => CarriesErrorKey(options_result)

\* What the two flows do handle: a capability check that returns False shows
\* the form with url_broken, and the options flow never raises one of the
\* client's own exceptions.
C23_HandledFailures ==
    /\ flow_last.check = Return(FALSE) => flow_result = ShowForm("user", "url_broken")
    /\ options_result.type = "raise"
          => ~IsInstance(options_result.reason, "EtaApiClientError")

\* C24: an entry exists only for a host and port for which the capability
\* check has returned True in this flow; and when the check of the last
\* submitted form returned False, the flow shows the host/port form with
\* url_broken, has fetched no menu for it and has created no entry.
C24_EntryOnlyAfterCheck ==
    /\ flow_entry # <<>>
          => <<flow_entry[1].host, flow_entry[1].port>> \in flow_checked
    /\ flow_last.check = Return(FALSE)
          => /\ flow_result = ShowForm("user", "url_broken")
             /\ flow_step = "user"
             /\ flow_last.menu = NoOutcome
             /\ flow_entry = <<>>

\* The first check returned False and the form came back with url_broken;
\* a later check returned True and the flow went on to create the entry.
C24_Witness ==
    /\ flow_entry # <<>>
    /\ flow_entry[1].host = "192.168.0.6"
    /\ flow_errors = "url_broken"
    /\ flow_checked = {<<"192.168.0.6", "8080">>}

\* C26: the points coordinator.chosen_objects reconstructs from the entry
\* are, in the same order, as many as the points chosen in the flow, each
\* with the uri and the full_name of the chosen point.
C26_RoundTrip ==
    flow_loaded # NoOutcome =>
        /\ flow_loaded.tag = "return"
        /\ Len(flow_loaded.val[1]) = Len(flow_data.chosen_entities)
        /\ \A i \in DOMAIN flow_data.chosen_entities :
              /\ flow_loaded.val[1][i].uri = flow_data.chosen_entities[i].uri
              /\ flow_loaded.val[1][i].full_name =
                    flow_data.chosen_entities[i].full_name

\* Three points were chosen and reconstructed, the child before its parent;
\* the third has the full name of the parent.
C26_Witness ==
    /\ flow_loaded.tag = "return"
    /\ Len(flow_loaded.val[1]) = 3
    /\ flow_loaded.val[1][1].uri = Uri(2)
    /\ flow_loaded.val[1][3].uri = Uri(3)
    /\ flow_loaded.val[1][3].full_name = FullName(1)

\* No step of a refresh cycle writes the stored list.
C26_RefreshKeepsStoredList == [][chosen_entities' = chosen_entities]_vars

\* C33: the entry the setup flow creates stores at least one chosen point.
C33_EntryStoresPoints ==
    flow_entry # <<>> => Len(flow_entry[1].chosen_entities) > 0

\* An entry created at select_entities, where no chosen point is a switch,
\* stores at least one point.
C33_EntryWithoutSwitchesStoresPoints ==
    (flow_entry # <<>> /\ flow_data.switch_names = {})
    => Len(flow_entry[1].chosen_entities) > 0

-----------------------------------------------------------------------------
(* __init__.async_setup_entry forwards the entry to the platforms of       *)
(* PLATFORMS; sensor.async_setup_entry creates the entities.               *)

MaxSetupPoints == 3

\* __init__.PLATFORMS
PLATFORMS == <<"sensor">>

\* What the device shows for a point: a temperature, a binary code, an
\* enumerated-state code, a code of no table with a display text, and a
\* code of no table without one.
SetupValues(uri) ==
    {DeviceValue(uri, SampleReading),
     BinaryValue(uri),
     [value |-> "2004", unit |-> "", uri |-> uri, str_value |-> "Heizversuch"],
     [value |-> "4001", unit |-> "", uri |-> uri, str_value |-> "Ein"],
     [value |-> "0", unit |-> "", uri |-> uri, str_value |-> ""]}

\* Answers to GET /user/var/<uri> for a point showing v: the value, a body
\* that does not decode, or none within the timeout.
SetupResponses(v) ==
    {Responded(200, Body(None, <<>>, <<v>>, <<>>)),
     Responded(200, Body("ValidationError", <<>>, <<>>, <<>>)),
     RequestFailed("TimeoutError")}

\* The entity sensor.async_setup_entry constructs for obj and its fetched
\* value: <<>> when it appends none.
sensor_entity(obj, v) ==
    LET sensor_type_ == determine_sensor_type(v)
    IN  IF sensor_type_ = "sensor"
        THEN <<[class |-> "EtaSensor", key |-> obj.full_name, url |-> obj.uri,
                device_class |-> ETA_SENSOR_UNITS[v.unit]]>>
        ELSE IF sensor_type_ = "string_sensor"
        THEN <<[class |-> "EtaStringSensor", key |-> obj.full_name,
                url |-> obj.uri, device_class |-> None]>>
        ELSE <<>>

\* An entry with one to MaxSetupPoints chosen points is being set up; the
\* first refresh is over.
SetupInit ==
    /\ \E n \in 1..MaxSetupPoints :
          /\ setup_entry = [i \in 1..n |-> Stored(Uri(i), FullName(i))]
          /\ setup_device \in [1..n -> UNION {SetupValues(Uri(i)) : i \in 1..n}]
          /\ \A i \in 1..n : setup_device[i].uri = Uri(i)
    /\ setup_platform = 0
    /\ setup_pc = "forward"
    /\ setup_objects = <<>>
    /\ setup_idx = 0
    /\ setup_fetched = <<>>
    /\ eta_sensors = <<>>
    /\ setup_entities = {}
    /\ setup_outcome = NoOutcome
    /\ EarlyIdle
    /\ StringIdle
    /\ FlowIdle
    /\ LastIdle

\* async_forward_entry_setups calls the next platform's async_setup_entry,
\* which reconstructs the chosen objects; after the last platform the setup
\* of the entry returns.
ForwardEntrySetup ==
    /\ setup_pc = "forward"
    /\ IF setup_platform = Len(PLATFORMS)
       THEN /\ setup_pc' = "done"
            /\ setup_outcome' = Return(TRUE)
            /\ UNCHANGED <<setup_platform, setup_objects, setup_idx>>
       ELSE /\ setup_platform' = setup_platform + 1
            /\ PLATFORMS[setup_platform + 1] = "sensor"
            /\ setup_objects' = chosen_objects(setup_entry, <<>>).objects
            /\ setup_idx' = 1
            /\ setup_pc' = "loop"
            /\ UNCHANGED setup_outcome
    /\ eta_sensors' = <<>>
    /\ UNCHANGED <<setup_entry, setup_device, setup_fetched, setup_entities,
                   besidesSetup>>

\* One pass of `for obj in chosen_objects` of sensor.async_setup_entry.
SensorSetupStep ==
    /\ setup_pc = "loop"
    /\ setup_idx <= Len(setup_objects)
    /\ \E resp \in SetupResponses(setup_device[setup_idx]) :
          LET obj == setup_objects[setup_idx]
              fetched == async_get_data(resp)
          IN  /\ setup_fetched' = Append(setup_fetched, fetched)
              /\ IF fetched.tag = "raise"
                 THEN /\ setup_pc' = "raised"
                      /\ setup_outcome' = fetched
                      /\ UNCHANGED <<setup_idx, eta_sensors>>
                 ELSE /\ eta_sensors' = eta_sensors \o sensor_entity(obj, fetched.val[1])
                      /\ setup_idx' = setup_idx + 1
                      /\ UNCHANGED <<setup_pc, setup_outcome>>
    /\ UNCHANGED <<setup_entry, setup_device, setup_platform, setup_objects,
                   setup_entities, besidesSetup>>

\* async_add_entities(eta_sensors)
AddEntities ==
    /\ setup_pc = "loop"
    /\ setup_idx > Len(setup_objects)
    /\ setup_entities' = setup_entities \cup {eta_sensors[i] : i \in DOMAIN eta_sensors}
    /\ setup_pc' = "forward"
    /\ UNCHANGED <<setup_entry, setup_device, setup_platform, setup_objects,
                   setup_idx, setup_fetched, eta_sensors, setup_outcome,
                   besidesSetup>>

SetupNext ==
    \/ ForwardEntrySetup
    \/ SensorSetupStep
    \/ AddEntities

SpecSetup == SetupInit /\ [][SetupNext]_vars

\* The setup of the entry has ended, by a return or by an exception.
SetupEnded == setup_pc \in {"done", "raised"}

\* The entity class of a kind.
ClassOfKind(kind) ==
    CASE kind = "sensor" -> "EtaSensor"
      [] kind = "string_sensor" -> "EtaStringSensor"
      [] kind = "binary_sensor" -> "EtaSwitch"

\* The entities the host has for the i-th chosen point.
EntitiesOf(i) ==
    {e \in setup_entities :
        e.key = setup_entry[i].full_name /\ e.url = setup_entry[i].uri[1]}

\* The i-th point has exactly one entity, of the class of the kind its value
\* classifies to.
OneEntityOfItsKind(i) ==
    /\ Cardinality(EntitiesOf(i)) = 1
    /\ \A e \in EntitiesOf(i) :
          e.class = ClassOfKind(determine_sensor_type(setup_device[i]))

\* C27: once the entry is set up, every chosen point whose value classifies
\* to a kind has exactly one entity, of that kind's class: a sensor entity
\* for a numeric and for a string sensor, a switch entity for a binary one.
C27_OneEntityPerClassifiedPoint ==
    setup_pc = "done" =>
        \A i \in DOMAIN setup_entry :
            determine_sensor_type(setup_device[i]) # None => OneEntityOfItsKind(i)

\* The same for the points classified as numeric or as string sensor only.
C27_OneSensorPerSensorPoint ==
    setup_pc = "done" =>
        \A i \in DOMAIN setup_entry :
            determine_sensor_type(setup_device[i]) \in {"sensor", "string_sensor"}
                => OneEntityOfItsKind(i)

\* The fetch of the i-th point was made and failed.
SetupFetchFailed(i) == i \in DOMAIN setup_fetched /\ setup_fetched[i].tag = "raise"

\* C30: a setup in which the fetch of a point failed does not raise, and
\* has created the sensor entities of all the other points whose value
\* classifies as numeric or as string sensor.
C30_FailedFetchDropsOnePoint ==
    (SetupEnded /\ \E i \in DOMAIN setup_entry : SetupFetchFailed(i))
    => /\ setup_pc = "done"
       /\ \A j \in DOMAIN setup_entry :
             (/\ ~SetupFetchFailed(j)
              /\ determine_sensor_type(setup_device[j]) \in {"sensor", "string_sensor"})
             => OneEntityOfItsKind(j)

\* A failed fetch ends the setup with the exception of the fetch and without
\* any entity.
C30_FailedFetchRaises ==
    (SetupEnded /\ \E i \in DOMAIN setup_entry : SetupFetchFailed(i))
    => /\ setup_pc = "raised"
       /\ setup_outcome.tag = "raise"
       /\ setup_entities = {}


-----------------------------------------------------------------------------
(* The selection steps of the setup flow: what is kept at confirm_switches, *)
(* which error a form carries, empty selections, and the unique id.         *)

\* The points of the classification with their classes, as stored dicts.
StoredPoints(fetched) == [i \in DOMAIN fetched |-> Object_as_dict(fetched[i].point)]

\* The classified points that are sensors or are switches of a confirmed name.
SensorsAndConfirmed(fetched, confirmed) ==
    SelectSeq(fetched, LAMBDA f : ~f.switch \/ f.point.full_name \in confirmed)

\* The confirm_switches form was submitted and the entry created from it.
Confirmed == flow_selection.step = "confirm_switches" /\ flow_entry # <<>>

\* C34: the list stored at confirm_switches is, in the original order, the
\* classified points that are sensors and the switches whose name the user
\* confirmed: no sensor is dropped, no unconfirmed switch is kept, nothing
\* is added.
C34_KeepsSensorsAndConfirmed ==
    Confirmed
    => flow_entry[1].chosen_entities =
          StoredPoints(SensorsAndConfirmed(flow_fetched, flow_selection.names))

\* No two classified points have the same full_name.
FetchedNamesDistinct ==
    \A i, j \in DOMAIN flow_fetched :
        flow_fetched[i].point.full_name = flow_fetched[j].point.full_name => i = j

\* Among points of distinct full names exactly the sensors and the confirmed
\* switches are stored.
C34_DistinctNamesKeepExactly ==
    (Confirmed /\ FetchedNamesDistinct)
    => flow_entry[1].chosen_entities =
          StoredPoints(SensorsAndConfirmed(flow_fetched, flow_selection.names))

\* The error key a step sets for its own input (None: the step sets none).
ErrorOfStep(step) ==
    CASE step = "user" -> "url_broken"
      [] step = "select_fubs" -> "no_fubs_selected"
      [] step = "select_entities" -> "no_entities_selected"
      [] OTHER -> None

\* C36: a form carries no error, or the error its own step sets; the error
\* of an earlier step, or of an earlier submission that was followed by a
\* valid one, is never on the form of the following step.
C36_ErrorBelongsToItsStep ==
    flow_result.type = "form"
    => flow_result.errors \in {None, ErrorOfStep(flow_result.step_id)}

\* A flow in which no submission has failed shows every form without error.
C36_NoErrorWithoutFailure ==
    (flow_result.type = "form" /\ flow_errors = None) => flow_result.errors = None

\* C39: the flow aborts with already_configured exactly when the unique id
\* "host:port" of the submitted form is that of an existing entry, and then
\* before the capability check and the menu fetch; the entry a flow creates
\* has a host and port under which no entry existed.
C39_NoSecondEntry ==
    /\ flow_last.input # <<>>
          => (UniqueId(flow_last.input[1]) \in configured
                 <=> flow_result = Abort("already_configured"))
    /\ flow_result = Abort("already_configured")
          => /\ flow_last.check = NoOutcome
             /\ flow_last.menu = NoOutcome
             /\ flow_entry = <<>>
             /\ flow_step = "finished"
    /\ flow_entry # <<>>
          => UniqueId(<<flow_entry[1].host, flow_entry[1].port>>) \notin configured

\* The flow was aborted on its second form: the first, for another port,
\* failed its check; the second named the host and port of the entry.
C39_Witness ==
    /\ flow_result = Abort("already_configured")
    /\ flow_last.input = <<(<<"192.168.0.5", "8080">>)>>
    /\ flow_errors = "url_broken"
    /\ configured = {"192.168.0.5:8080"}


-----------------------------------------------------------------------------
(* config_flow.EtaOptionsFlowHandler, step by step, on a stored entry.       *)

\* EtaOptionsFlowHandler.__init__
OptionsHandler ==
    [errors |-> None, discovered_fubs |-> <<>>, selected_fub_names |-> {},
     chosen_objects |-> <<>>, sensor_names |-> {}, switch_names |-> {}]

\* Lists of chosen points an entry may store: none (see C33), one point,
\* the three points of the unit, and two points of one full name.
StoredLists ==
    LET unit == get_objects_recursively(KesselFub(FullName(3)))
        twin == get_objects_recursively(KesselFub(FullName(1)))
        dicts(objs) == [i \in DOMAIN objs |-> Object_as_dict(objs[i])]
    IN  {<<>>, dicts(SubSeq(unit, 2, 2)), dicts(unit), dicts(SubSeq(twin, 2, 3))}

\* config_entry.data of the entries the options flow is opened on.
OptionEntries ==
    {[host |-> "192.168.0.5", port |-> "8080", chosen_entities |-> c] :
        c \in StoredLists}

\* A save that stores the new list alone.
UpdatedData_without_rest(entry_data, objects) ==
    [host |-> None, port |-> None,
     chosen_entities |-> [i \in DOMAIN objects |-> Object_as_dict(objects[i])]]

\* data={**self.config_entry.data, CHOSEN_ENTITIES: [obj.as_dict() for obj in ..]}
UpdatedData(entry_data, objects) ==
    [entry_data EXCEPT !.chosen_entities =
        [i \in DOMAIN objects |-> Object_as_dict(objects[i])]]

\* The objects of the selected units, as the options flow lists them.
OptionsSelectableObjects(handler) ==
    Concat([i \in DOMAIN handler.discovered_fubs |->
               IF handler.discovered_fubs[i].sanitized_name
                     \in handler.selected_fub_names
               THEN get_objects_recursively(handler.discovered_fubs[i]) ELSE <<>>])

\* The user opens the options of an entry.
OptionsInit ==
    /\ opt_step = "init"
    /\ opt_result = NoResult
    /\ opt_self = OptionsHandler
    /\ opt_entry \in OptionEntries
    /\ opt_before = opt_entry
    /\ opt_selection = NoSelection
    /\ opt_fetched = <<>>
    /\ EarlyIdle
    /\ StringIdle
    /\ FlowIdle
    /\ SetupIdle
    /\ GatherIdle
    /\ LifeIdle

\* EtaOptionsFlowHandler.async_step_init
OptionsFlow_async_step_init ==
    /\ opt_step = "init"
    /\ \E menu_resp \in FlowMenuResponses :
          LET discovered == async_parse_menu(menu_resp)
          IN  IF discovered.tag = "raise"
              THEN /\ opt_result' =
                         IF IsInstance(discovered.exc, "EtaApiClientError")
                         THEN Abort("cannot_connect")
                         ELSE Escaped(discovered.exc)
                   /\ opt_step' = "finished"
                   /\ UNCHANGED opt_self
              ELSE IF discovered.val[1].menu = <<>>
                      \/ discovered.val[1].menu[1].fubs = <<>>
              THEN /\ opt_result' = Abort("no_entities")
                   /\ opt_step' = "finished"
                   /\ UNCHANGED opt_self
              ELSE /\ opt_self' = [opt_self EXCEPT !.discovered_fubs =
                                      discovered.val[1].menu[1].fubs]
                   /\ opt_result' = ShowForm("select_fubs", opt_self.errors)
                   /\ opt_step' = "select_fubs"
    /\ UNCHANGED <<opt_entry, opt_before, opt_selection, opt_fetched, besidesOptions>>

\* EtaOptionsFlowHandler.async_step_select_fubs(user_input)
OptionsFlow_async_step_select_fubs ==
    /\ opt_step = "select_fubs"
    /\ \E selected \in SUBSET {"Kessel"} :
          /\ opt_selection' = [step |-> "select_fubs", names |-> selected]
          /\ IF EmptySelection(selected)
             THEN /\ opt_self' = [opt_self EXCEPT !.errors = "no_fubs_selected"]
                  /\ opt_result' = ShowForm("select_fubs", "no_fubs_selected")
                  /\ UNCHANGED opt_step
             ELSE /\ opt_self' = [opt_self EXCEPT !.selected_fub_names = selected]
                  /\ opt_result' = ShowForm("select_entities", None)
                  /\ opt_step' = "select_entities"
    /\ UNCHANGED <<opt_entry, opt_before, opt_fetched, besidesOptions>>

\* EtaOptionsFlowHandler.async_step_select_entities(user_input)
OptionsFlow_async_step_select_entities ==
    /\ opt_step = "select_entities"
    /\ LET objects == OptionsSelectableObjects(opt_self)
       IN  \E names \in SUBSET {objects[i].full_name : i \in DOMAIN objects} :
              /\ opt_selection' = [step |-> "select_entities", names |-> names]
              /\ IF EmptySelection(names)
                 THEN /\ opt_result' =
                            ShowForm("select_entities", "no_entities_selected")
                      /\ UNCHANGED <<opt_step, opt_self, opt_entry, opt_fetched>>
                 ELSE LET chosen == SelectSeq(objects,
                                              LAMBDA o : o.full_name \in names)
                      IN  \E answers \in [DOMAIN chosen ->
                                             FlowFetchResponses(SampleUri)] :
                             LET fetched == [i \in DOMAIN chosen |->
                                                async_get_data(answers[i])]
                                 kinds == classify_entities(chosen, fetched)
                             IN  /\ opt_self' =
                                       [opt_self EXCEPT
                                           !.chosen_objects = chosen,
                                           !.sensor_names = kinds.sensor_names,
                                           !.switch_names = kinds.switch_names]
                                 /\ opt_fetched' =
                                       [i \in DOMAIN chosen |->
                                           [point |-> chosen[i],
                                            switch |-> IsSwitch(fetched[i])]]
                                 /\ IF kinds.switch_names # {}
                                    THEN /\ opt_result' =
                                               ShowForm("confirm_switches",
                                                        opt_self.errors)
                                         /\ opt_step' = "confirm_switches"
                                         /\ UNCHANGED opt_entry
                                    ELSE /\ opt_entry' = UpdatedData(opt_entry, chosen)
                                         /\ opt_result' = CreateEntry
                                         /\ opt_step' = "finished"
    /\ UNCHANGED <<opt_before, besidesOptions>>

\* EtaOptionsFlowHandler.async_step_confirm_switches(user_input)
OptionsFlow_async_step_confirm_switches ==
    /\ opt_step = "confirm_switches"
    /\ \E confirmed_switches \in SUBSET opt_self.switch_names :
          /\ opt_selection' = [step |-> "confirm_switches",
                               names |-> confirmed_switches]
          /\ LET keep_names == opt_self.sensor_names \cup confirmed_switches
                 final_objects == SelectSeq(opt_self.chosen_objects,
                                            LAMBDA o : o.full_name \in keep_names)
             IN  opt_entry' = UpdatedData(opt_entry, final_objects)
    /\ opt_result' = CreateEntry
    /\ opt_step' = "finished"
    /\ UNCHANGED <<opt_self, opt_before, opt_fetched, besidesOptions>>

OptionsNext ==
    \/ OptionsFlow_async_step_init
    \/ OptionsFlow_async_step_select_fubs
    \/ OptionsFlow_async_step_select_entities
    \/ OptionsFlow_async_step_confirm_switches

SpecOptions == OptionsInit /\ [][OptionsNext]_vars

\* The flow has saved: its last step updated the entry and ended the flow.
Saved == opt_step = "finished" /\ opt_result = CreateEntry

\* C38: a save of the options flow leaves host and port of the entry data
\* as they were, and a flow that has not saved (it aborted, an exception
\* left it, or it shows a form) leaves the whole entry data as it was.
C38_SaveChangesChosenOnly ==
    /\ opt_entry.host = opt_before.host
    /\ opt_entry.port = opt_before.port
    /\ DOMAIN opt_entry = DOMAIN opt_before
    /\ ~Saved => opt_entry = opt_before

\* A save replaced a stored list of three points by one of two.
C38_Witness ==
    /\ Saved
    /\ Len(opt_before.chosen_entities) = 3
    /\ Len(opt_entry.chosen_entities) = 2
    /\ opt_entry.host = "192.168.0.5"


\* A flow of either kind: the setup flow from its first form, or the
\* options flow opened on a stored entry.
SpecFlows == (FlowInit \/ OptionsInit) /\ [][FlowNext \/ OptionsNext]_vars

\* C37: after an empty selection at select_fubs or select_entities the
\* flow, setup or options, is at the same step, shows its form with the
\* step's error, has fetched no value, and has neither created nor updated
\* an entry.
C37_EmptySelectionStays ==
    /\ (flow_selection.step \in {"select_fubs", "select_entities"}
           /\ flow_selection.names = {})
       => /\ flow_step = flow_selection.step
          /\ flow_result = ShowForm(flow_step, ErrorOfStep(flow_step))
          /\ flow_fetched = <<>>
          /\ flow_entry = <<>>
    /\ (opt_selection.step \in {"select_fubs", "select_entities"}
           /\ opt_selection.names = {})
       => /\ opt_step = opt_selection.step
          /\ opt_result = ShowForm(opt_step, ErrorOfStep(opt_step))
          /\ opt_fetched = <<>>
          /\ opt_entry = opt_before

\* An empty selection of points was submitted in the options flow of an
\* entry of three points, after a unit had been selected.
C37_Witness ==
    /\ opt_selection = [step |-> "select_entities", names |-> {}]
    /\ opt_self.selected_fub_names = {"Kessel"}
    /\ opt_result = ShowForm("select_entities", "no_entities_selected")
    /\ Len(opt_entry.chosen_entities) = 3

\* An empty selection of units was submitted in the setup flow.
C37_SetupFlowCase ==
    /\ flow_selection = [step |-> "select_fubs", names |-> {}]
    /\ flow_result = ShowForm("select_fubs", "no_fubs_selected")


-----------------------------------------------------------------------------
(* config_flow._classify_entities (the same in both flows), task by task:   *)
(* one _fetch task per chosen point under asyncio.Semaphore(3), gathered,   *)
(* then the loop over the results.                                          *)

MaxChosen == 5

\* asyncio.Semaphore(3)
SemaphoreValue == 3

\* The chosen points: the first n objects of a unit, their full names
\* distinct or the last one's that of the first.
GatherLists ==
    {[i \in 1..n |-> MenuObject(Uri(i), i, FullName(i), <<>>)] : n \in 0..MaxChosen}
    \cup {[i \in 1..n |-> MenuObject(Uri(i), i,
                                     IF i = n THEN FullName(1) ELSE FullName(i),
                                     <<>>)] : n \in 2..MaxChosen}

\* What a _fetch task returns: (obj.full_name, value), value None as <<>>.
FetchResult(name, v) == [name |-> name, value |-> v]

\* A semaphore whose permit is given back after a successful fetch only.
sem_release_on_success_only(permits, got) ==
    IF got.tag = "raise" THEN permits ELSE permits + 1

\* The end of `async with sem:`, whatever the block returned or raised.
sem_release(permits, got) == permits + 1

\* A loop that leaves out the points whose value is None.
classify_loop_skipping_none(res) ==
    LET after[k \in 0..Len(res)] ==
            IF k = 0 THEN [sensor_names |-> <<>>, switch_names |-> <<>>]
            ELSE IF res[k].value = <<>>
            THEN after[k - 1]
            ELSE IF determine_sensor_type(res[k].value[1]) = "binary_sensor"
            THEN [after[k - 1] EXCEPT !.switch_names = Append(@, res[k].name)]
            ELSE [after[k - 1] EXCEPT !.sensor_names = Append(@, res[k].name)]
    IN  after[Len(res)]

\* `for name, value in results:` of _classify_entities; after[k] is the two
\* lists after k turns of the loop.
classify_loop(res) ==
    LET after[k \in 0..Len(res)] ==
            IF k = 0 THEN [sensor_names |-> <<>>, switch_names |-> <<>>]
            ELSE IF res[k].value = <<>>
            THEN [after[k - 1] EXCEPT !.sensor_names = Append(@, res[k].name)]
            ELSE IF determine_sensor_type(res[k].value[1]) = "binary_sensor"
            THEN [after[k - 1] EXCEPT !.switch_names = Append(@, res[k].name)]
            ELSE [after[k - 1] EXCEPT !.sensor_names = Append(@, res[k].name)]
    IN  after[Len(res)]

\* The _fetch tasks whose request is under way.
InFlight == {i \in DOMAIN gather_task : gather_task[i] = "fetching"}

\* _classify_entities is called: the semaphore is made and asyncio.gather
\* creates one task per point.
GatherInit ==
    /\ gather_objects \in GatherLists
    /\ gather_task = [i \in DOMAIN gather_objects |-> "waiting"]
    /\ sem_value = SemaphoreValue
    /\ gather_fetched = [i \in DOMAIN gather_objects |-> NoOutcome]
    /\ gather_results = [i \in DOMAIN gather_objects |-> FetchResult(None, <<>>)]
    /\ gather_pc = "gather"
    /\ gather_names = [sensor_names |-> <<>>, switch_names |-> <<>>]
    /\ EarlyIdle
    /\ StringIdle
    /\ FlowIdle
    /\ SetupIdle
    /\ OptionsIdle
    /\ LifeIdle

\* `async with sem:` is entered by task i and its request sent.
Acquire(i) ==
    /\ gather_pc = "gather"
    /\ gather_task[i] = "waiting"
    /\ sem_value > 0
    /\ sem_value' = sem_value - 1
    /\ gather_task' = [gather_task EXCEPT ![i] = "fetching"]
    /\ UNCHANGED <<gather_objects, gather_fetched, gather_results, gather_pc,
                   gather_names, besidesGather>>

\* The request of task i ends: async_get_data returns the value or raises,
\* `except Exception` turns what it raises into None, the permit goes back.
FetchEnds(i) ==
    /\ gather_pc = "gather"
    /\ gather_task[i] = "fetching"
    /\ \E resp \in FlowFetchResponses(gather_objects[i].uri) :
          LET got == async_get_data(resp)
          IN  /\ gather_fetched' = [gather_fetched EXCEPT ![i] = got]
              /\ sem_value' = sem_release(sem_value, got)
              /\ gather_task' = [gather_task EXCEPT ![i] = "done"]
              /\ IF got.tag = "raise" /\ ~IsInstance(got.exc, "Exception")
                 THEN /\ gather_pc' = "raised"
                      /\ UNCHANGED gather_results
                 ELSE /\ gather_results' =
                            [gather_results EXCEPT ![i] =
                                FetchResult(gather_objects[i].full_name,
                                            IF got.tag = "return" THEN got.val
                                            ELSE <<>>)]
                      /\ UNCHANGED gather_pc
    /\ UNCHANGED <<gather_objects, gather_names, besidesGather>>

\* asyncio.gather returns the results in the order of the points, and the
\* loop sorts the names into the two lists.
GatherReturns ==
    /\ gather_pc = "gather"
    /\ \A i \in DOMAIN gather_task : gather_task[i] = "done"
    /\ gather_names' = classify_loop(gather_results)
    /\ gather_pc' = "returned"
    /\ UNCHANGED <<gather_objects, gather_task, sem_value, gather_fetched,
                   gather_results, besidesGather>>

GatherNext ==
    \/ \E i \in DOMAIN gather_task : Acquire(i)
    \/ \E i \in DOMAIN gather_task : FetchEnds(i)
    \/ GatherReturns

\* The event loop runs every task that can run, and every request ends.
SpecGather == GatherInit /\ [][GatherNext]_vars /\ WF_vars(GatherNext)

\* C31: never more than 3 fetches are under way; while the tasks run, the
\* permits left and the fetches under way add up to the semaphore's 3, so
\* each ended fetch, successful or failed, gave its permit back; and the
\* classification returns, with every point fetched.
C31_BoundedFanOut ==
    /\ [](/\ Cardinality(InFlight) <= 3
          /\ gather_pc # "idle" => sem_value + Cardinality(InFlight) = 3)
    /\ <>(/\ gather_pc = "returned"
          /\ \A i \in DOMAIN gather_objects : gather_fetched[i] # NoOutcome)

\* Three fetches are under way, a fourth task waits for a permit, and a
\* fetch has failed before.
C31_Witness ==
    /\ Cardinality(InFlight) = 3
    /\ sem_value = 0
    /\ \E i \in DOMAIN gather_task : gather_task[i] = "waiting"
    /\ \E i \in DOMAIN gather_task :
          gather_task[i] = "done" /\ gather_fetched[i].tag = "raise"

\* The full names, in order, of the points at the positions in keep.
NamesAt(objects, keep) ==
    LET upto[k \in 0..Len(objects)] ==
            IF k = 0 THEN <<>>
            ELSE IF k \in keep THEN Append(upto[k - 1], objects[k].full_name)
            ELSE upto[k - 1]
    IN  upto[Len(objects)]

\* The positions of the points whose value was fetched and is binary.
SwitchPositions == {i \in DOMAIN gather_objects : IsSwitch(gather_fetched[i])}

\* C32: switch_names holds, in the order of the chosen list, the names of
\* the points whose value was fetched and classifies as binary, and
\* sensor_names those of all the others, the points whose fetch failed
\* included; and the classification of the others always happens: the step
\* never ends with an exception.
C32_EveryNameInOneList ==
    /\ gather_pc # "raised"
    /\ gather_pc = "returned"
          => /\ gather_names.switch_names = NamesAt(gather_objects, SwitchPositions)
             /\ gather_names.sensor_names =
                   NamesAt(gather_objects, DOMAIN gather_objects \ SwitchPositions)

\* Five points classified: the fetch of the first failed, the second is a
\* switch, the last a sensor with the full name of the first.
C32_Witness ==
    /\ gather_pc = "returned"
    /\ Len(gather_objects) = 5
    /\ gather_fetched[1].tag = "raise"
    /\ IsSwitch(gather_fetched[2])
    /\ gather_fetched[5].tag = "return"
    /\ gather_objects[5].full_name = gather_objects[1].full_name
    /\ Len(gather_names.sensor_names) + Len(gather_names.switch_names) = 5


-----------------------------------------------------------------------------
(* The life of a loaded entry: __init__.async_setup_entry, the update       *)
(* listener async_reload_entry, the coordinators with their cached points,  *)
(* the saves of the options flow.  A call is suspended at each of its       *)
(* awaits, where the host runs whatever else is due.                        *)

MaxTasks == 3

\* The lists an entry stores: one point, or two.
LifeLists ==
    {<<Stored(Uri(1), FullName(1))>>,
     <<Stored(Uri(1), FullName(1)), Stored(Uri(2), FullName(2))>>}

\* EtaDataUpdateCoordinator(...): nothing cached, data None.
NewCoordinator == [cache |-> <<>>, data |-> <<>>]

\* A call of async_setup_entry or async_reload_entry: where it is suspended,
\* its local variable coordinator, whether it has forwarded the entry, and
\* the points the platform's setup has parsed from the stored list.
Task(at, c) == [pc |-> at, coordinator |-> c, forwarded |-> FALSE, points |-> {}]

\* The keys of a snapshot taken over objs.
Snapshot(objs) == {objs[i].full_name : i \in DOMAIN objs}

\* `await coordinator.async_config_entry_first_refresh()`: it returns after
\* a successful first cycle and raises otherwise, which leaves
\* async_setup_entry before the platforms are forwarded.
AfterFirstRefresh(success) == IF success THEN "forward" ELSE "not_ready"

\* The host calls async_setup_entry for a new entry: the coordinator is made
\* and put in runtime_data, and the call awaits the first refresh.
LifeInit ==
    /\ life_entry \in LifeLists
    /\ life_tasks = <<Task("first_refresh", 1)>>
    /\ life_coordinators = <<NewCoordinator>>
    /\ life_runtime = 1
    /\ life_entities = {}
    /\ life_loaded = FALSE
    /\ life_listeners = 0
    /\ life_cycle = [coordinator |-> 0, used |-> <<>>, entry |-> <<>>, first |-> TRUE]
    /\ life_read = [coordinator |-> 0, outcome |-> NoOutcome]
    /\ EarlyIdle
    /\ StringIdle
    /\ FlowIdle
    /\ SetupIdle
    /\ OptionsIdle
    /\ GatherIdle

\* A refresh cycle of coordinator c: _async_update_data takes
\* self.chosen_objects, which parses the stored list unless one is cached,
\* and the cycle succeeds or fails.
RefreshCycle(c, success) ==
    LET co == chosen_objects(life_entry, life_coordinators[c].cache)
    IN  /\ life_cycle' = [coordinator |-> c, used |-> co.objects,
                          entry |-> life_entry,
                          first |-> life_coordinators[c].cache = <<>>]
        /\ life_coordinators' =
              [life_coordinators EXCEPT
                  ![c] = [cache |-> co.cache,
                          data |-> IF success THEN <<Snapshot(co.objects)>>
                                   ELSE @.data]]

\* The first refresh awaited by call t ends.
FirstRefreshEnds(t) ==
    /\ life_tasks[t].pc = "first_refresh"
    /\ \E success \in BOOLEAN :
          /\ RefreshCycle(life_tasks[t].coordinator, success)
          /\ life_tasks' = [life_tasks EXCEPT ![t].pc = AfterFirstRefresh(success)]
    /\ UNCHANGED <<life_entry, life_runtime, life_entities, life_loaded,
                   life_listeners, life_read, besidesLife>>

\* async_forward_entry_setups of call t: a platform that is set up already
\* is not set up again and the call ends there; otherwise
\* sensor.async_setup_entry starts, parses the stored list and awaits the
\* value of its first point.
ForwardStarts(t) ==
    /\ life_tasks[t].pc = "forward"
    /\ IF life_loaded
       THEN /\ life_tasks' = [life_tasks EXCEPT ![t].pc = "raised"]
            /\ UNCHANGED life_loaded
       ELSE /\ life_tasks' =
                  [life_tasks EXCEPT
                      ![t].pc = "platform",
                      ![t].forwarded = TRUE,
                      ![t].points = Snapshot(chosen_objects(life_entry, <<>>).objects)]
            /\ life_loaded' = TRUE
    /\ UNCHANGED <<life_entry, life_coordinators, life_runtime, life_entities,
                   life_listeners, life_cycle, life_read, besidesLife>>

\* sensor.async_setup_entry of call t ends: it has made the entities of its
\* points with config_entry.runtime_data.coordinator and added them, or a
\* fetch failed and it has added none.  async_setup_entry then registers
\* the update listener and returns.
PlatformEnds(t) ==
    /\ life_tasks[t].pc = "platform"
    /\ life_tasks' = [life_tasks EXCEPT ![t].pc = "done"]
    /\ life_listeners' = life_listeners + 1
    /\ \E platform_ok \in BOOLEAN :
          life_entities' =
             IF platform_ok
             THEN life_entities \cup
                  {[key |-> n, coordinator |-> life_runtime] :
                      n \in life_tasks[t].points}
             ELSE life_entities
    /\ UNCHANGED <<life_entry, life_coordinators, life_runtime, life_loaded,
                   life_cycle, life_read, besidesLife>>

\* The update interval of coordinator c, which has listening entities, is
\* over: a refresh cycle.
TimerRefresh(c) ==
    /\ \E e \in life_entities : e.coordinator = c
    /\ \E success \in BOOLEAN : RefreshCycle(c, success)
    /\ UNCHANGED <<life_entry, life_tasks, life_runtime, life_entities,
                   life_loaded, life_listeners, life_read, besidesLife>>

\* The host reads the state of entity e: self.coordinator.data.get(key).
ReadEntity(e) ==
    /\ e \in life_entities
    /\ life_read' =
          [coordinator |-> e.coordinator,
           outcome |-> IF life_coordinators[e.coordinator].data = <<>>
                       THEN Raise("AttributeError")
                       ELSE Return(e.key \in life_coordinators[e.coordinator].data[1])]
    /\ UNCHANGED <<life_entry, life_tasks, life_coordinators, life_runtime,
                   life_entities, life_loaded, life_listeners, life_cycle,
                   besidesLife>>

\* The options flow saves another list: async_update_entry stores it and
\* the host starts one call of async_reload_entry per registered listener.
OptionsSave ==
    /\ Len(life_tasks) + life_listeners <= MaxTasks
    /\ \E chosen \in LifeLists \ {life_entry} : life_entry' = chosen
    /\ life_tasks' = life_tasks \o [i \in 1..life_listeners |-> Task("unload", 0)]
    /\ UNCHANGED <<life_coordinators, life_runtime, life_entities, life_loaded,
                   life_listeners, life_cycle, life_read, besidesLife>>

\* async_reload_entry, call t: async_unload_entry has ended, with the
\* platform's entities removed or, when the unload failed, as they were;
\* async_setup_entry has made the next coordinator, put it in runtime_data,
\* and awaits its first refresh.
ReloadUnloaded(t) ==
    /\ life_tasks[t].pc = "unload"
    /\ \E unload_ok \in BOOLEAN :
          IF unload_ok
          THEN life_entities' = {} /\ life_loaded' = FALSE
          ELSE UNCHANGED <<life_entities, life_loaded>>
    /\ life_coordinators' = Append(life_coordinators, NewCoordinator)
    /\ life_runtime' = Len(life_coordinators) + 1
    /\ life_tasks' = [life_tasks EXCEPT
                         ![t] = Task("first_refresh", Len(life_coordinators) + 1)]
    /\ UNCHANGED <<life_entry, life_listeners, life_cycle, life_read, besidesLife>>

LifeNext ==
    \/ \E t \in DOMAIN life_tasks : FirstRefreshEnds(t)
    \/ \E t \in DOMAIN life_tasks : ForwardStarts(t)
    \/ \E t \in DOMAIN life_tasks : PlatformEnds(t)
    \/ \E c \in DOMAIN life_coordinators : TimerRefresh(c)
    \/ \E e \in life_entities : ReadEntity(e)
    \/ OptionsSave
    \/ \E t \in DOMAIN life_tasks : ReloadUnloaded(t)

SpecLifecycle == LifeInit /\ [][LifeNext]_vars

\* The first refresh of coordinator c has given it a snapshot.
HasSnapshot(c) == life_coordinators[c].data # <<>>

C40_EachCallRefreshesFirst ==
    \A t \in DOMAIN life_tasks :
        /\ life_tasks[t].pc \in {"forward", "platform", "done", "raised"}
              => HasSnapshot(life_tasks[t].coordinator)
        /\ life_tasks[t].pc = "not_ready" => ~life_tasks[t].forwarded

\* C35: a refresh cycle fetches the points of the list the entry stores
\* when the cycle starts.
C35_CycleFetchesStoredPoints ==
    life_cycle.coordinator # 0
    => life_cycle.used = chosen_objects(life_cycle.entry, <<>>).objects

\* The first cycle of a coordinator, which finds nothing cached, fetches the
\* points of the list stored at that moment.
C35_FirstCycleFetchesStoredPoints ==
    (life_cycle.coordinator # 0 /\ life_cycle.first)
    => life_cycle.used = chosen_objects(life_cycle.entry, <<>>).objects

=============================================================================
